---------------------------- MODULE Spec2Model ----------------------------
(***************************************************************************)
(* Gateway of the flight-booking system: the service clients of            *)
(* app/services.py with their circuit breakers, the three collaborators    *)
(* (flights catalog, tickets store, loyalty ledger) and the gateway        *)
(* handlers of app/gateway/main.py.                                        *)
(*                                                                         *)
(* Time is counted in ticks, Resolution ticks to one time unit (second).   *)
(***************************************************************************)
EXTENDS Integers, Sequences, FiniteSets, TLC

(***************************************************************************)
(* Bounds of the model.                                                    *)
(***************************************************************************)
Resolution == 2
MaxTime == 3
MaxRows == 2
MaxPurchases == 2
MaxSeconds == 2
MaxPolls == 3

(***************************************************************************)
(* Program constants.                                                      *)
(***************************************************************************)
\* A breaker that tolerates one failure.
FailureThresholdTolerant == 1 + 1
\* services.py:10  CircuitBreaker(service, failure_threshold=1, ...)
failure_threshold == 1
\* services.py:10  CircuitBreaker(service, ..., recovery_timeout=1)
recovery_timeout == 1

Procs == {"p1", "p2"}
NoProc == "none"

\* FlightsService.NAME, TicketsService.NAME, PrivilegesService.NAME
FlightsName == "Flights Service"
TicketsName == "Ticket Service"
BonusName == "Bonus Service"
Services == {FlightsName, TicketsName, BonusName}

Users == {"u1", "u2"}
NoUid == 0
FlightNumbers == {"F1", "F2"}
UnknownFlight == "F9"

\* The catalog of the flights collaborator (read-only): number -> price.
FlightPrice(n) == IF n = "F1" THEN 400 ELSE 1000

(***************************************************************************)
(* Client operations of app/services.py.                                   *)
(***************************************************************************)
FlightsGuarded == {"get_all_flights", "get_flight_by_number"}
TicketsGuarded == {"get_user_tickets", "get_ticket_by_uid"}
\* The ledger client with the decorator on its two write methods as well.
BonusGuardedWithWrites ==
    {"get_user_privilege", "get_user_privilege_history",
     "get_user_privilege_transaction", "add_privilege_transaction",
     "revert_transaction"}

BonusGuarded == {"get_user_privilege", "get_user_privilege_history",
                 "get_user_privilege_transaction"}
TicketsWrites == {"remove_ticket", "create_new_ticket"}
BonusWrites == {"add_privilege_transaction", "revert_transaction"}

\* The decorator put on the write methods as well.
GuardedOpsWithWrites ==
    FlightsGuarded \cup TicketsGuarded \cup BonusGuarded \cup TicketsWrites
        \cup BonusWrites

\* The methods decorated with @wrap_cb(NAME).
GuardedOps == FlightsGuarded \cup TicketsGuarded \cup BonusGuarded
WriteOps == TicketsWrites \cup BonusWrites

\* The collaborator an operation talks to (the class it is a method of).
TargetOf(op) ==
    IF op \in FlightsGuarded THEN FlightsName
    ELSE IF op \in TicketsGuarded \cup TicketsWrites THEN TicketsName
    ELSE BonusName

\* A mis-wired decorator: the history read registered under another name.
wrap_cbMiswired(op) ==
    IF op = "get_user_privilege_history" THEN TicketsName ELSE TargetOf(op)

\* @wrap_cb(NAME): the service name each guarded method's breaker is made for.
wrap_cb(op) == TargetOf(op)

VARIABLES now, cb, lock, tickets, accounts, history, pc, cur, loc, nextUid,
          cancelled

vars == <<now, cb, lock, tickets, accounts, history, pc, cur, loc, nextUid,
          cancelled>>


(***************************************************************************)
(* Helpers on sequences of rows.                                           *)
(***************************************************************************)
RemoveAt(rows, i) == SubSeq(rows, 1, i - 1) \o SubSeq(rows, i + 1, Len(rows))

\* Index of the first row tagged with the ticket identifier, 0 when none.
FirstTicket(rows, uid) ==
    IF \E i \in 1..Len(rows) : rows[i].ticket_uid = uid
    THEN CHOOSE i \in 1..Len(rows) :
            /\ rows[i].ticket_uid = uid
            /\ \A j \in 1..(i - 1) : rows[j].ticket_uid # uid
    ELSE 0

\* Index of the first ledger entry of the account tagged with the ticket
\* identifier, 0 when none.
FirstEntry(rows, user, uid) ==
    IF \E i \in 1..Len(rows) : rows[i].username = user /\ rows[i].ticket_uid = uid
    THEN CHOOSE i \in 1..Len(rows) :
            /\ rows[i].username = user /\ rows[i].ticket_uid = uid
            /\ \A j \in 1..(i - 1) :
                  ~(rows[j].username = user /\ rows[j].ticket_uid = uid)
    ELSE 0

NoBody == [none |-> TRUE]
Response(status, body) == [status |-> status, body |-> body]

(***************************************************************************)
(* Flights collaborator (app/flights/main.py).                              *)
(***************************************************************************)
flight_to_response(n) == [flightNumber |-> n, price |-> FlightPrice(n)]

flights_get_all_flights ==
    Response(200, {flight_to_response(n) : n \in FlightNumbers})

flights_get_flight_by_number(n) ==
    IF n \in FlightNumbers
    THEN Response(200, flight_to_response(n))
    ELSE Response(404, NoBody)

(***************************************************************************)
(* Tickets collaborator (app/tickets/main.py).                              *)
(***************************************************************************)
IsOwnedBy(row, user) == row.username = user

tickets_get_user_tickets(rows, user) ==
    Response(200, SelectSeq(rows, LAMBDA r : IsOwnedBy(r, user)))

tickets_get_ticket_details(rows, uid) ==
    IF FirstTicket(rows, uid) = 0
    THEN Response(404, NoBody)
    ELSE Response(200, rows[FirstTicket(rows, uid)])

\* A create that does not look for an existing ticket.
TicketExistsUnchecked(rows, uid) == FALSE

\* create_new_ticket: existing_ticket, the first row with the identifier.
TicketExists(rows, uid) == FirstTicket(rows, uid) # 0

\* create_new_ticket: db.add(ticket_entry); db.commit()
\* An insert that stores the row as CANCELED.
tickets_addCanceled(rows, a) ==
    Append(rows, [ticket_uid |-> a.uid, username |-> a.user,
                  flight_number |-> a.flight, price |-> a.price,
                  status |-> "CANCELED"])

tickets_add(rows, a) ==
    Append(rows, [ticket_uid |-> a.uid, username |-> a.user,
                  flight_number |-> a.flight, price |-> a.price,
                  status |-> "PAID"])

tickets_create_new_ticket(rows, a) ==
    IF TicketExists(rows, a.uid)
    THEN [resp |-> Response(403, NoBody), rows |-> rows]
    ELSE [resp |-> Response(201, NoBody), rows |-> tickets_add(rows, a)]

\* A delete that answers 204 and keeps the row.
tickets_remove_ticketKept(rows, uid) ==
    IF FirstTicket(rows, uid) = 0
    THEN [resp |-> Response(404, NoBody), rows |-> rows]
    ELSE [resp |-> Response(204, NoBody), rows |-> rows]

\* A delete that drops the first row of the table, not the matching one.
tickets_remove_ticketUnfiltered(rows, uid) ==
    IF FirstTicket(rows, uid) = 0
    THEN [resp |-> Response(404, NoBody), rows |-> rows]
    ELSE [resp |-> Response(204, NoBody), rows |-> RemoveAt(rows, 1)]

tickets_remove_ticket(rows, uid) ==
    IF FirstTicket(rows, uid) = 0
    THEN [resp |-> Response(404, NoBody), rows |-> rows]
    ELSE [resp |-> Response(204, NoBody),
          rows |-> RemoveAt(rows, FirstTicket(rows, uid))]

(***************************************************************************)
(* Loyalty ledger collaborator (app/bonus/main.py, exercised by            *)
(* app/bonus/test.py).                                                     *)
(***************************************************************************)
OperationTypes == {"FILL_IN_BALANCE", "DEBIT_THE_ACCOUNT"}

\* Every entry counted as a credit.
SignedDiffAlwaysCredit(e) == e.balance_diff

\* FILL_IN_BALANCE counts +balance_diff, DEBIT_THE_ACCOUNT -balance_diff.
SignedDiff(e) ==
    IF e.operation_type = "FILL_IN_BALANCE" THEN e.balance_diff
    ELSE 0 - e.balance_diff

bonus_get_privilege(acc, user) ==
    IF user \in DOMAIN acc
    THEN Response(200, [username |-> user, balance |-> acc[user]])
    ELSE Response(404, NoBody)

bonus_get_history(acc, rows, user) ==
    IF user \in DOMAIN acc
    THEN Response(200, SelectSeq(rows, LAMBDA r : r.username = user))
    ELSE Response(404, NoBody)

bonus_get_transaction(acc, rows, user, uid) ==
    IF user \in DOMAIN acc /\ FirstEntry(rows, user, uid) # 0
    THEN Response(200, rows[FirstEntry(rows, user, uid)])
    ELSE Response(404, NoBody)

bonus_add_transaction(acc, rows, a) ==
    IF a.user \notin DOMAIN acc
    THEN [resp |-> Response(404, NoBody), acc |-> acc, rows |-> rows]
    ELSE IF a.optype \notin OperationTypes
    THEN [resp |-> Response(400, NoBody), acc |-> acc, rows |-> rows]
    ELSE LET e == [username |-> a.user, ticket_uid |-> a.uid,
                   balance_diff |-> a.diff, operation_type |-> a.optype]
         IN  [resp |-> Response(201, NoBody),
              acc |-> [acc EXCEPT ![a.user] = @ + SignedDiff(e)],
              rows |-> Append(rows, e)]

bonus_remove_transaction(acc, rows, user, uid) ==
    IF user \notin DOMAIN acc \/ FirstEntry(rows, user, uid) = 0
    THEN [resp |-> Response(404, NoBody), acc |-> acc, rows |-> rows]
    ELSE LET i == FirstEntry(rows, user, uid)
         IN  [resp |-> Response(204, NoBody),
              acc |-> [acc EXCEPT ![user] = @ - SignedDiff(rows[i])],
              rows |-> RemoveAt(rows, i)]

(***************************************************************************)
(* CircuitBreaker (circuit_breaker.py): one state per service name.        *)
(***************************************************************************)
CircuitBreaker(service) ==
    [state |-> "CLOSED", failure_count |-> 0, last_failure_time |-> 0]

\* now - last_failure_time >= recovery_timeout
RecoveryElapsed(b, t) == t - b.last_failure_time >= recovery_timeout * Resolution

\* The admission check of call: an OPEN breaker refuses the call unless the
\* recovery timeout has elapsed, and then becomes HALF_OPEN.
\* An admission that never lets a trial through.
cb_before_callNoTrial(b, t) ==
    IF b.state = "OPEN" THEN [go |-> FALSE, b |-> b] ELSE [go |-> TRUE, b |-> b]

cb_before_call(b, t) ==
    IF b.state = "OPEN"
    THEN IF RecoveryElapsed(b, t)
         THEN [go |-> TRUE, b |-> [b EXCEPT !.state = "HALF_OPEN"]]
         ELSE [go |-> FALSE, b |-> b]
    ELSE [go |-> TRUE, b |-> b]

cb_on_success(b) == [b EXCEPT !.state = "CLOSED", !.failure_count = 0]

\* A failed trial that reopens the breaker without restarting the timer.
cb_on_failureStaleTimer(b, t) ==
    IF b.state = "HALF_OPEN" THEN [b EXCEPT !.state = "OPEN"]
    ELSE [state |-> "OPEN", failure_count |-> b.failure_count + 1,
          last_failure_time |-> t]

cb_on_failure(b, t) ==
    IF b.state = "HALF_OPEN"
    THEN [b EXCEPT !.state = "OPEN", !.last_failure_time = t]
    ELSE IF b.failure_count + 1 >= failure_threshold
    THEN [state |-> "OPEN", failure_count |-> b.failure_count + 1,
          last_failure_time |-> t]
    ELSE [b EXCEPT !.failure_count = b.failure_count + 1]

\* A breaker whose calls do not exclude each other.
cb_lock_freeUnlocked(holder) == TRUE

\* The critical section of call is free.
cb_lock_free(holder) == holder = NoProc

(***************************************************************************)
(* The service clients (app/services.py): what a method makes of the       *)
(* collaborator's answer.                                                  *)
(***************************************************************************)
\* Methods with "if response.status_code == 404: return None".
NotFoundAsNone ==
    {"get_ticket_by_uid", "get_user_privilege", "get_user_privilege_transaction"}

Raised(kind, status) == [kind |-> kind, status |-> status, body |-> NoBody]
Returned(status, body) == [kind |-> "value", status |-> status, body |-> body]
ReturnedNone(status) == [kind |-> "None", status |-> status, body |-> NoBody]
NoResult == [kind |-> "pending", status |-> 0, body |-> NoBody]

\* response.raise_for_status()
raise_for_status(resp) == resp.status >= 400

ClientResult(op, resp) ==
    IF op \in NotFoundAsNone /\ resp.status = 404 THEN ReturnedNone(resp.status)
    ELSE IF raise_for_status(resp) THEN Raised("HTTPError", resp.status)
    ELSE IF op \in WriteOps THEN ReturnedNone(resp.status)
    ELSE Returned(resp.status, resp.body)

\* A call that returned (a value or None) rather than raised.
IsReturn(r) == r.kind \in {"value", "None"}

\* The arguments of a client call.
Args(user, uid, flight, price, diff, optype) ==
    [user |-> user, uid |-> uid, flight |-> flight, price |-> price,
     diff |-> diff, optype |-> optype]
NoArgs == Args("u1", NoUid, "F1", 0, 0, "FILL_IN_BALANCE")

\* The collaborator's answer to the request of a method, and the stores after.
Served(op, a, tk, acc, hist) ==
    LET same(resp) == [resp |-> resp, tickets |-> tk, accounts |-> acc,
                       history |-> hist]
    IN
    CASE op = "get_all_flights" -> same(flights_get_all_flights)
      [] op = "get_flight_by_number" -> same(flights_get_flight_by_number(a.flight))
      [] op = "get_user_tickets" -> same(tickets_get_user_tickets(tk, a.user))
      [] op = "get_ticket_by_uid" -> same(tickets_get_ticket_details(tk, a.uid))
      [] op = "get_user_privilege" -> same(bonus_get_privilege(acc, a.user))
      [] op = "get_user_privilege_history" -> same(bonus_get_history(acc, hist, a.user))
      [] op = "get_user_privilege_transaction" ->
            same(bonus_get_transaction(acc, hist, a.user, a.uid))
      [] op = "create_new_ticket" ->
            LET r == tickets_create_new_ticket(tk, a)
            IN  [resp |-> r.resp, tickets |-> r.rows, accounts |-> acc,
                 history |-> hist]
      [] op = "remove_ticket" ->
            LET r == tickets_remove_ticket(tk, a.uid)
            IN  [resp |-> r.resp, tickets |-> r.rows, accounts |-> acc,
                 history |-> hist]
      [] op = "add_privilege_transaction" ->
            LET r == bonus_add_transaction(acc, hist, a)
            IN  [resp |-> r.resp, tickets |-> tk, accounts |-> r.acc,
                 history |-> r.rows]
      [] op = "revert_transaction" ->
            LET r == bonus_remove_transaction(acc, hist, a.user, a.uid)
            IN  [resp |-> r.resp, tickets |-> tk, accounts |-> r.acc,
                 history |-> r.rows]

\* A request whose failure comes after the collaborator has served it.
RequestServedThenLost(op, a, tk, acc, hist, fault) ==
    LET s == Served(op, a, tk, acc, hist)
    IN  [result |-> IF fault THEN Raised("ConnectionError", 0)
                    ELSE ClientResult(op, s.resp),
         tickets |-> s.tickets, accounts |-> s.accounts, history |-> s.history]

\* requests.get/post/delete: the collaborator answers, or (fault) the
\* connection fails and its stores are untouched.
Request(op, a, tk, acc, hist, fault) ==
    IF fault
    THEN [result |-> Raised("ConnectionError", 0), tickets |-> tk,
          accounts |-> acc, history |-> hist]
    ELSE LET s == Served(op, a, tk, acc, hist)
         IN  [result |-> ClientResult(op, s.resp), tickets |-> s.tickets,
              accounts |-> s.accounts, history |-> s.history]

(***************************************************************************)
(* State.                                                                  *)
(*   now       the clock, in ticks                                         *)
(*   cb        the breaker state of each service name                      *)
(*   lock      the caller inside each breaker's critical section           *)
(*   tickets   the rows of the tickets store                               *)
(*   accounts  the balance of each loyalty account                         *)
(*   history   the rows of the loyalty ledger                              *)
(*   pc, cur   each caller's position and its current client call          *)
(*   loc       the locals of the gateway handler each caller runs          *)
(*   nextUid   the number of ticket identifiers generated so far           *)
(*   cancelled the identifiers whose cancel has been answered 204, a       *)
(*             history of the requests served, kept for the properties     *)
(***************************************************************************)
\* The balance of the accounts the ledger's tests start from.
OpeningBalance == 500
NoAccountUser == "u9"

Idle == [op |-> "none", a |-> NoArgs, result |-> NoResult,
         attempted |-> FALSE, trial |-> FALSE]

NoResponse == [code |-> 0, kind |-> "none", message |-> "", ticketUid |-> NoUid,
               paidByMoney |-> 0, paidByBonuses |-> 0, balance |-> 0,
               tickets |-> << >>]
NoLocals == [handler |-> "none", user |-> "u1", flight |-> "F1", paid |-> FALSE,
             uid |-> NoUid, price |-> 0, balance |-> 0, cash_payment |-> 0,
             bonus_payment |-> 0, updated |-> 0, before |-> -1,
             privilege_absent |-> FALSE, user_tickets |-> << >>,
             formatted_tickets |-> << >>, max_seconds |-> 0, deadline |-> 0,
             named |-> FALSE,
             polls |-> 0, slept |-> FALSE, unslept |-> 0, deletes |-> 0,
             response |-> NoResponse]

InitCommon ==
    /\ now = 0
    /\ cb = [s \in Services |-> CircuitBreaker(s)]
    /\ lock = [s \in Services |-> NoProc]
    /\ tickets = << >>
    /\ history = << >>
    /\ pc = [p \in Procs |-> "idle"]
    /\ cur = [p \in Procs |-> Idle]
    /\ loc = [p \in Procs |-> NoLocals]
    /\ nextUid = 0
    /\ cancelled = {}

(***************************************************************************)
(* Time passes.                                                            *)
(***************************************************************************)
Tick ==
    /\ now < MaxTime
    /\ now' = now + 1
    /\ UNCHANGED <<cb, lock, tickets, accounts, history, pc, cur, loc, nextUid,
                   cancelled>>

(***************************************************************************)
(* CircuitBreaker.call(fn, ...) as reached through wrapper (services.py    *)
(* 13-14): the admission, and the recording of the outcome.                *)
(***************************************************************************)
Admission(op) == cb_before_call(cb[wrap_cb(op)], now)

BreakerEnter(p, op) ==
    /\ cb_lock_free(lock[wrap_cb(op)])
    /\ cb' = [cb EXCEPT ![wrap_cb(op)] = Admission(op).b]
    /\ lock' = IF Admission(op).go
               THEN [lock EXCEPT ![wrap_cb(op)] = p]
               ELSE lock

BreakerExit(p, op, result) ==
    /\ cb' = [cb EXCEPT ![wrap_cb(op)] =
                IF IsReturn(result) THEN cb_on_success(@)
                ELSE cb_on_failure(@, now)]
    /\ lock' = [lock EXCEPT ![wrap_cb(op)] = NoProc]

CircuitOpenException(service) == [kind |-> "CircuitOpenException", status |-> 0,
                                  body |-> [service |-> service]]

StoresAfter(req) ==
    /\ tickets' = req.tickets
    /\ accounts' = req.accounts
    /\ history' = req.history

(***************************************************************************)
(* Callers of the service clients: one client call at a time.              *)
(***************************************************************************)
\* The arguments the callers try, per method.
ClientArgs(op) ==
    CASE op = "get_all_flights" -> {NoArgs}
      [] op = "get_flight_by_number" ->
            {[NoArgs EXCEPT !.flight = f] : f \in {"F1", UnknownFlight}}
      [] op \in {"get_user_tickets", "get_user_privilege_history"} -> {NoArgs}
      [] op = "get_user_privilege" ->
            {[NoArgs EXCEPT !.user = u] : u \in {"u1", NoAccountUser}}
      [] op \in {"get_ticket_by_uid", "get_user_privilege_transaction",
                 "remove_ticket", "revert_transaction"} ->
            {[NoArgs EXCEPT !.uid = 1]}
      [] op = "create_new_ticket" ->
            {Args("u1", 1, "F1", FlightPrice("F1"), 0, "FILL_IN_BALANCE"),
             Args("u2", 1, "F2", FlightPrice("F2"), 0, "FILL_IN_BALANCE")}
      [] op = "add_privilege_transaction" ->
            {Args("u1", 1, "F1", 0, 150, ty) : ty \in OperationTypes}

\* A guarded method is called: wrapper hands it to the breaker, which admits
\* the call or raises CircuitOpenException.
ClientEnter(p, op, a) ==
    /\ pc[p] = "idle"
    /\ op \in GuardedOps
    /\ a \in ClientArgs(op)
    /\ BreakerEnter(p, op)
    /\ IF Admission(op).go
       THEN /\ pc' = [pc EXCEPT ![p] = "in_call"]
            /\ cur' = [cur EXCEPT ![p] =
                         [op |-> op, a |-> a, result |-> NoResult,
                          attempted |-> TRUE,
                          trial |-> Admission(op).b.state = "HALF_OPEN"]]
       ELSE /\ pc' = [pc EXCEPT ![p] = "done"]
            /\ cur' = [cur EXCEPT ![p] =
                         [op |-> op, a |-> a,
                          result |-> CircuitOpenException(wrap_cb(op)),
                          attempted |-> FALSE, trial |-> FALSE]]
    /\ UNCHANGED <<now, tickets, accounts, history, loc, nextUid, cancelled>>

\* The admitted method body runs: the request, and the outcome recorded.
ClientExit(p, fault) ==
    /\ pc[p] = "in_call"
    /\ LET req == Request(cur[p].op, cur[p].a, tickets, accounts, history, fault)
       IN  /\ BreakerExit(p, cur[p].op, req.result)
           /\ StoresAfter(req)
           /\ cur' = [cur EXCEPT ![p].result = req.result]
    /\ pc' = [pc EXCEPT ![p] = "done"]
    /\ UNCHANGED <<now, loc, nextUid, cancelled>>

\* An unguarded method is called: the request is made whatever the breakers say.
ClientWrite(p, op, a, fault) ==
    /\ pc[p] = "idle"
    /\ op \in WriteOps
    /\ a \in ClientArgs(op)
    /\ op = "create_new_ticket" => Len(tickets) < MaxRows
    /\ op = "add_privilege_transaction" => Len(history) < MaxRows
    /\ LET req == Request(op, a, tickets, accounts, history, fault)
       IN  /\ StoresAfter(req)
           /\ cur' = [cur EXCEPT ![p] =
                        [op |-> op, a |-> a, result |-> req.result,
                         attempted |-> TRUE, trial |-> FALSE]]
    /\ pc' = [pc EXCEPT ![p] = "done"]
    /\ UNCHANGED <<now, cb, lock, loc, nextUid, cancelled>>

\* The caller has its result and is free for the next call.
ClientReturn(p) ==
    /\ pc[p] = "done"
    /\ loc[p].handler = "none"
    /\ pc' = [pc EXCEPT ![p] = "idle"]
    /\ cur' = [cur EXCEPT ![p] = Idle]
    /\ UNCHANGED <<now, cb, lock, tickets, accounts, history, loc, nextUid,
                   cancelled>>

InitClient ==
    /\ InitCommon
    /\ accounts = [u \in Users |-> OpeningBalance]

\* One caller, every method of the three clients.
NextClient ==
    \/ Tick
    \/ \E op \in GuardedOps : \E a \in ClientArgs(op) : ClientEnter("p1", op, a)
    \/ \E fault \in BOOLEAN : ClientExit("p1", fault)
    \/ \E op \in WriteOps : \E a \in ClientArgs(op), fault \in BOOLEAN :
          ClientWrite("p1", op, a, fault)
    \/ ClientReturn("p1")

SpecClient == InitClient /\ [][NextClient]_vars

\* The collaborators have recovered: from now on every request is answered.
\* (A failure this late could not be timed out before the clock's bound.)
Settled == now + recovery_timeout * Resolution > MaxTime

\* A guarded method of the client of service is called, with keys the
\* collaborator can answer.
IssueTo(service) ==
    \E op \in GuardedOps : \E a \in ClientArgs(op) :
        /\ wrap_cb(op) = service
        /\ a.flight # UnknownFlight
        /\ ClientEnter("p1", op, a)

\* The collaborator answers the call, or fails while it has not recovered.
Answer(fault) ==
    /\ fault => ~Settled
    /\ ClientExit("p1", fault)

NextRecover ==
    \/ Tick
    \/ \E service \in Services : IssueTo(service)
    \/ \E fault \in BOOLEAN : Answer(fault)
    \/ ClientReturn("p1")

\* Time keeps advancing, attempted calls are answered, and guarded calls keep
\* being issued to every collaborator.
FairRecover ==
    /\ WF_vars(Tick)
    /\ WF_vars(Answer(FALSE))
    /\ WF_vars(ClientReturn("p1"))
    /\ \A service \in Services : SF_vars(IssueTo(service))

SpecRecover == InitClient /\ [][NextRecover]_vars /\ FairRecover

\* Concurrent callers of the guarded methods of one collaborator.
NextRace ==
    \/ Tick
    \/ \E p \in Procs, op \in BonusGuarded : \E a \in ClientArgs(op) :
          ClientEnter(p, op, a)
    \/ \E p \in Procs, fault \in BOOLEAN : ClientExit(p, fault)
    \/ \E p \in Procs : ClientReturn(p)

SpecRace == InitClient /\ [][NextRace]_vars

(***************************************************************************)
(* The gateway handlers (app/gateway/main.py).  A handler is a sequence of *)
(* client calls; pc names the call it is at, CallAt the method and its     *)
(* arguments, After what the handler does with the outcome.                *)
(***************************************************************************)
ReadLabels == {"f_list", "t_privilege", "t_tickets", "t_flight", "m_privilege",
               "m_tickets", "m_flight", "d_ticket", "d_flight", "v_privilege",
               "v_history"}
GuardedLabels == {"p_flight", "p_privilege", "p_reread", "c_ticket", "c_record",
                  "r_poll"} \cup ReadLabels
WriteLabels == {"p_ledger", "p_ticket", "c_revert", "c_remove", "r_rollback"}

\* cancel_with_retry(..., interval: int = 1), in seconds.
interval == 1

\* The attributes of privilege_client that cancel_with_retry reads.  Neither is
\* a method of PrivilegesService: reading one raises AttributeError.  Aliased
\* is the client they would name if it answered to them: the ledger lookup
\* and the compensating delete.
AsWritten ==
    [lookup |-> "get_user_privelge_transaction", delete |-> "rollback_transaction"]
Aliased ==
    [get_user_privelge_transaction |-> "get_user_privilege_transaction",
     rollback_transaction |-> "revert_transaction"]

\* getattr(privilege_client, name): the method, or "none" for AttributeError.
getattr(name, named) ==
    IF name \in GuardedOps \cup WriteOps THEN name
    ELSE IF named /\ name \in DOMAIN Aliased THEN Aliased[name]
    ELSE "none"

\* An identifier that is not fresh: the same one every time.
uuid4Reused(n) == 1

\* uuid.uuid4(): the n-th identifier generated.
uuid4(n) == n + 1

ErrorResponse(code, message) ==
    [NoResponse EXCEPT !.code = code, !.kind = "ErrorResponse", !.message = message]

\* A ValidationErrorResponse returned as the handler's value.
ValidationErrorResponse(message) ==
    [NoResponse EXCEPT !.code = 200, !.kind = "ValidationErrorResponse",
                       !.message = message]

\* A handler answering 503 without saying which service is unavailable.
circuit_open_exception_handlerAnonymous(service) == ErrorResponse(503, "unavailable")

\* circuit_open_exception_handler: f"{exc.service} unavailable", 503.  The
\* message is kept as the service it names.
circuit_open_exception_handler(service) == ErrorResponse(503, service)

\* An exception no handler catches.
InternalServerError == ErrorResponse(500, "Internal Server Error")

Min(a, b) == IF a <= b THEN a ELSE b

\* A split that spends the price whatever the balance.
bonus_amountUncapped(balance, price) == price

\* bonus_amount = min(user_privilege.balance, flight_info.price)
bonus_amount(balance, price) == Min(balance, price)

\* cash_payment // 10 credited in full instead.
accrualFull(cash) == cash

\* balance_diff = cash_payment // 10
accrual(cash) == cash \div 10

CallAt(label, l) ==
    CASE label = "p_flight" ->
            [op |-> "get_flight_by_number", a |-> [NoArgs EXCEPT !.flight = l.flight]]
      [] label \in {"p_privilege", "p_reread"} ->
            [op |-> "get_user_privilege", a |-> [NoArgs EXCEPT !.user = l.user]]
      [] label = "p_ledger" ->
            [op |-> "add_privilege_transaction",
             a |-> IF l.paid
                   THEN Args(l.user, l.uid, l.flight, 0, l.bonus_payment,
                             "DEBIT_THE_ACCOUNT")
                   ELSE Args(l.user, l.uid, l.flight, 0, accrual(l.cash_payment),
                             "FILL_IN_BALANCE")]
      [] label = "p_ticket" ->
            [op |-> "create_new_ticket",
             a |-> Args(l.user, l.uid, l.flight, l.cash_payment, 0, "FILL_IN_BALANCE")]
      [] label = "c_ticket" ->
            [op |-> "get_ticket_by_uid", a |-> [NoArgs EXCEPT !.uid = l.uid]]
      [] label = "c_record" ->
            [op |-> "get_user_privilege_transaction",
             a |-> [NoArgs EXCEPT !.user = l.user, !.uid = l.uid]]
      [] label = "c_revert" ->
            [op |-> "revert_transaction",
             a |-> [NoArgs EXCEPT !.user = l.user, !.uid = l.uid]]
      [] label = "c_remove" ->
            [op |-> "remove_ticket", a |-> [NoArgs EXCEPT !.uid = l.uid]]
      [] label = "r_poll" ->
            [op |-> getattr(AsWritten.lookup, l.named),
             a |-> [NoArgs EXCEPT !.user = l.user, !.uid = l.uid]]
      [] label = "r_rollback" ->
            [op |-> getattr(AsWritten.delete, l.named),
             a |-> [NoArgs EXCEPT !.user = l.user, !.uid = l.uid]]
      [] label = "f_list" -> [op |-> "get_all_flights", a |-> NoArgs]
      [] label \in {"t_privilege", "m_privilege", "v_privilege"} ->
            [op |-> "get_user_privilege", a |-> [NoArgs EXCEPT !.user = l.user]]
      [] label \in {"t_tickets", "m_tickets"} ->
            [op |-> "get_user_tickets", a |-> [NoArgs EXCEPT !.user = l.user]]
      [] label \in {"t_flight", "m_flight"} ->
            \* convert_ticket_to_response(ticket), for the next ticket of the list
            [op |-> "get_flight_by_number",
             a |-> [NoArgs EXCEPT !.flight = Head(l.user_tickets).flight_number]]
      [] label = "d_ticket" ->
            [op |-> "get_ticket_by_uid", a |-> [NoArgs EXCEPT !.uid = l.uid]]
      [] label = "d_flight" ->
            [op |-> "get_flight_by_number", a |-> [NoArgs EXCEPT !.flight = l.flight]]
      [] label = "v_history" ->
            [op |-> "get_user_privilege_history",
             a |-> [NoArgs EXCEPT !.user = l.user]]

Goto(label, l, n) == [pc |-> label, loc |-> l, nextUid |-> n]
Respond(l, response, n) ==
    [pc |-> "done", loc |-> [l EXCEPT !.response = response], nextUid |-> n]

\* purchase_ticket, lines 183-215: the identifier, the payment split and the
\* ledger entry it calls for.
\* A purchase that skips the ledger append.
purchase_splitNoLedger(l, balance, n) ==
    LET bonus == IF l.paid THEN bonus_amount(balance, l.price) ELSE 0
        split == [l EXCEPT !.uid = uuid4(n), !.balance = balance,
                           !.bonus_payment = bonus,
                           !.cash_payment = l.price - bonus]
    IN  Goto("p_reread", split, n + 1)

purchase_split(l, balance, n) ==
    LET bonus == IF l.paid THEN bonus_amount(balance, l.price) ELSE 0
        split == [l EXCEPT !.uid = uuid4(n), !.balance = balance,
                           !.bonus_payment = bonus,
                           !.cash_payment = l.price - bonus]
    IN  IF l.paid /\ ~(bonus > 0)
        THEN Goto("p_reread", split, n + 1)
        ELSE Goto("p_ledger", split, n + 1)

\* The checks of cancel_ticket with the status looked at before the owner.
cancel_checksStatusFirst(l, r, n) ==
    IF r.kind = "None"
    THEN Respond(l, ErrorResponse(404, "Ticket does not exist"), n)
    ELSE IF r.body.status # "PAID"
    THEN Respond(l, ErrorResponse(400, "Ticket cannot be cancelled"), n)
    ELSE IF r.body.username # l.user
    THEN Respond(l, ErrorResponse(403, "Ticket does not belong to user"), n)
    ELSE Goto("c_record", l, n)

\* cancel_ticket: the ticket must exist, belong to the caller and be PAID.
cancel_checks(l, r, n) ==
    IF r.kind = "None"
    THEN Respond(l, ErrorResponse(404, "Ticket does not exist"), n)
    ELSE IF r.body.username # l.user
    THEN Respond(l, ErrorResponse(403, "Ticket does not belong to user"), n)
    ELSE IF r.body.status # "PAID"
    THEN Respond(l, ErrorResponse(400, "Ticket cannot be cancelled"), n)
    ELSE Goto("c_record", l, n)

\* A cancel that goes straight to the ticket removal.
revert_if_recordedSkipped(l, r, n) == Goto("c_remove", l, n)

\* cancel_ticket: if transaction_record: revert_transaction(...)
\* A cancel that deletes the ledger entry whether or not it found one.
revert_if_recordedAlways(l, r, n) == Goto("c_revert", l, n)

revert_if_recorded(l, r, n) ==
    IF r.kind = "None" THEN Goto("c_remove", l, n)
    ELSE Goto("c_revert", l, n)

\* The privilege argument of UserInfoResponse: the PrivilegeShortInfo of the
\* account, or the empty string passed when the account was not read.
PrivilegeShortInfo(balance) == [type |-> "PrivilegeShortInfo", balance |-> balance]
EmptyString == [type |-> "str", balance |-> 0]

\* UserInfoResponse(tickets=..., privilege=...): the field privilege is
\* declared PrivilegeShortInfo, and the constructor raises ValidationError
\* for anything else; nothing catches it.
UserInfoResponse(formatted, privilege) ==
    IF privilege.type # "PrivilegeShortInfo"
    THEN InternalServerError
    ELSE [NoResponse EXCEPT !.code = 200, !.kind = "UserInfoResponse",
                            !.tickets = formatted, !.balance = privilege.balance]

\* get_current_user_profile, lines 126-134.
me_response(l, formatted, n) ==
    IF l.privilege_absent
    THEN Respond(l, UserInfoResponse(formatted, EmptyString), n)
    ELSE Respond(l, UserInfoResponse(formatted, PrivilegeShortInfo(l.balance)), n)

\* convert_ticket_to_response, with the flight the lookup returned.
convert_ticket_to_response(ticket, flight_info) ==
    [ticketUid |-> ticket.ticket_uid, flightNumber |-> ticket.flight_number,
     price |-> ticket.price, status |-> ticket.status]

\* The guarded calls inside a try ... except CircuitOpenException: those of
\* get_current_user_profile and the poll of cancel_with_retry.
CaughtLabels == {"m_privilege", "m_tickets", "m_flight", "r_poll"}

\* The except CircuitOpenException branches of get_current_user_profile and
\* of cancel_with_retry (time.sleep(interval)).
except_CircuitOpenException(label, l, n) ==
    IF label = "m_privilege"
    THEN Goto("m_tickets", [l EXCEPT !.privilege_absent = TRUE], n)
    ELSE IF label = "r_poll"
    THEN Goto("r_sleep", l, n)
    ELSE me_response(l, << >>, n)

\* cancel_with_retry leaves by an exception, or returns (None).
Raises(exception) ==
    [NoResponse EXCEPT !.code = 500, !.kind = "raised", !.message = exception]
ReturnsNone == [NoResponse EXCEPT !.kind = "returned"]

\* cancel_with_retry, the body of the try once the poll has returned:
\* if <entry>: rollback, print, break; otherwise back to the while test.
retry_after_poll(l, r, n) ==
    IF r.kind = "None"
    THEN Goto("r_while", l, n)
    ELSE IF getattr(AsWritten.delete, l.named) = "none"
    THEN Respond(l, Raises("AttributeError"), n)
    ELSE Goto("r_rollback", l, n)

\* The while test of cancel_with_retry at time t and, inside the loop, the
\* read of the lookup method, which starts the next poll.
retry_while(l, t, n) ==
    IF ~(t < l.deadline)
    THEN Respond(l, ReturnsNone, n)
    ELSE IF getattr(AsWritten.lookup, l.named) = "none"
    THEN Respond(l, Raises("AttributeError"), n)
    ELSE Goto("r_poll", [l EXCEPT !.polls = @ + 1, !.slept = FALSE,
                                  !.unslept = IF l.polls > 0 /\ ~l.slept
                                               THEN @ + 1 ELSE @], n)

\* for ticket in user_tickets: ... convert_ticket_to_response(ticket), one
\* flight lookup per ticket; then the handler's response.
tickets_loop(label, l, pending, formatted, n) ==
    IF pending # << >>
    THEN Goto(label, [l EXCEPT !.user_tickets = pending,
                               !.formatted_tickets = formatted], n)
    ELSE IF label = "m_flight"
    THEN me_response(l, formatted, n)
    ELSE Respond(l, [NoResponse EXCEPT !.code = 200, !.kind = "TicketResponses",
                                       !.tickets = formatted], n)

\* A ticket detail handler that answers whoever asks.
detail_checksUnowned(l, r, n) ==
    IF r.kind = "None"
    THEN Respond(l, ErrorResponse(404, "Ticket not found"), n)
    ELSE Goto("d_flight", [l EXCEPT !.flight = r.body.flight_number,
                                    !.price = r.body.price], n)

\* retrieve_ticket_details: the ticket must exist and belong to the caller.
detail_checks(l, r, n) ==
    IF r.kind = "None"
    THEN Respond(l, ErrorResponse(404, "Ticket not found"), n)
    ELSE IF r.body.username # l.user
    THEN Respond(l, ErrorResponse(403, "Ticket does not belong to user"), n)
    ELSE Goto("d_flight", [l EXCEPT !.flight = r.body.flight_number,
                                    !.price = r.body.price], n)

\* The read handlers: retrieve_flights, retrieve_user_tickets,
\* get_current_user_profile, retrieve_ticket_details, get_user_privilege_info.
AfterRead(label, l, r, n) ==
    CASE label = "f_list" ->
            Respond(l, [NoResponse EXCEPT !.code = 200,
                                          !.kind = "PaginationResponse"], n)
      [] label = "t_privilege" ->
            IF r.kind = "None"
            THEN Respond(l, ErrorResponse(404, "User account not found"), n)
            ELSE Goto("t_tickets", l, n)
      [] label = "t_tickets" -> tickets_loop("t_flight", l, r.body, << >>, n)
      [] label = "m_privilege" ->
            IF r.kind = "None"
            THEN Respond(l, ErrorResponse(404, "User account not found"), n)
            ELSE Goto("m_tickets", [l EXCEPT !.balance = r.body.balance], n)
      [] label = "m_tickets" -> tickets_loop("m_flight", l, r.body, << >>, n)
      [] label \in {"t_flight", "m_flight"} ->
            tickets_loop(label, l, Tail(l.user_tickets),
                         Append(l.formatted_tickets,
                                convert_ticket_to_response(Head(l.user_tickets),
                                                           r.body)), n)
      [] label = "d_ticket" -> detail_checks(l, r, n)
      [] label = "d_flight" ->
            Respond(l, [NoResponse EXCEPT !.code = 200, !.kind = "TicketResponse",
                                          !.ticketUid = l.uid,
                                          !.paidByMoney = l.price,
                                          !.message = "PAID"], n)
      [] label = "v_privilege" ->
            IF r.kind = "None"
            THEN Respond(l, ErrorResponse(404, "User does not exist"), n)
            ELSE Goto("v_history", [l EXCEPT !.balance = r.body.balance], n)
      [] label = "v_history" ->
            Respond(l, [NoResponse EXCEPT !.code = 200,
                                          !.kind = "PrivilegeInfoResponse",
                                          !.balance = l.balance], n)

\* What the handler does once the call at label has ended with result r.
After(label, l, r, n) ==
    IF r.kind = "CircuitOpenException" /\ label \notin CaughtLabels
    THEN Respond(l, circuit_open_exception_handler(r.body.service), n)
    ELSE IF r.kind = "CircuitOpenException"
    THEN except_CircuitOpenException(label, l, n)
    ELSE IF ~IsReturn(r)
    THEN Respond(l, InternalServerError, n)
    ELSE
    CASE label = "p_flight" ->
            IF r.kind = "None"
            THEN Respond(l, ValidationErrorResponse("Data validation failed"), n)
            ELSE Goto("p_privilege", [l EXCEPT !.price = r.body.price], n)
      [] label = "p_privilege" ->
            IF r.kind = "None"
            THEN Respond(l, ValidationErrorResponse("User does not exist"), n)
            ELSE purchase_split(l, r.body.balance, n)
      [] label = "p_ledger" -> Goto("p_reread", l, n)
      [] label = "p_reread" ->
            IF r.kind = "None"
            THEN Goto("p_ticket", [l EXCEPT !.updated = -1], n)
            ELSE Goto("p_ticket", [l EXCEPT !.updated = r.body.balance], n)
      [] label = "p_ticket" ->
            IF l.updated = -1
            THEN Respond(l, InternalServerError, n)
            ELSE Respond(l, [NoResponse EXCEPT
                                !.code = 200, !.kind = "TicketPurchaseResponse",
                                !.message = "PAID", !.ticketUid = l.uid,
                                !.paidByMoney = l.cash_payment,
                                !.paidByBonuses = l.bonus_payment,
                                !.balance = l.updated], n)
      [] label = "c_ticket" -> cancel_checks(l, r, n)
      [] label = "c_record" -> revert_if_recorded(l, r, n)
      [] label = "c_revert" -> Goto("c_remove", l, n)
      [] label = "c_remove" ->
            Respond(l, [NoResponse EXCEPT !.code = 204, !.kind = "NoContent"], n)
      [] label \in ReadLabels -> AfterRead(label, l, r, n)
      [] label = "r_poll" -> retry_after_poll(l, r, n)
      [] label = "r_rollback" ->
            Respond([l EXCEPT !.deletes = @ + 1], ReturnsNone, n)

Continue(p, label, r) ==
    LET k == After(label, loc[p], r, nextUid)
    IN  /\ pc' = [pc EXCEPT ![p] = k.pc]
        /\ loc' = [loc EXCEPT ![p] = k.loc]
        /\ nextUid' = k.nextUid
        /\ cancelled' = IF /\ k.pc = "done"
                           /\ k.loc.handler = "cancel_ticket"
                           /\ k.loc.response.code = 204
                        THEN cancelled \cup {k.loc.uid}
                        ELSE cancelled

\* The guarded call the handler is at is under way.
InFlight(p) == cur[p].op # "none" /\ cur[p].result = NoResult

\* POST /tickets arrives.
PurchaseInputs == {"F1", "F2", UnknownFlight}
Buyers == {"u1", NoAccountUser}

purchase_ticket(p, user, flight, paid) ==
    /\ pc[p] = "idle"
    /\ nextUid < MaxPurchases
    /\ pc' = [pc EXCEPT ![p] = "p_flight"]
    /\ loc' = [loc EXCEPT ![p] = [NoLocals EXCEPT !.handler = "purchase_ticket",
                                     !.user = user, !.flight = flight,
                                     !.paid = paid]]
    /\ UNCHANGED <<now, cb, lock, tickets, accounts, history, cur, nextUid,
                   cancelled>>

\* DELETE /tickets/{ticket_uid} arrives.
cancel_ticket(p, user, uid) ==
    /\ pc[p] = "idle"
    /\ pc' = [pc EXCEPT ![p] = "c_ticket"]
    /\ loc' = [loc EXCEPT ![p] = [NoLocals EXCEPT !.handler = "cancel_ticket",
                                     !.user = user, !.uid = uid]]
    /\ UNCHANGED <<now, cb, lock, tickets, accounts, history, cur, nextUid,
                   cancelled>>

\* The buyer cancels straight away the ticket the purchase has just stored:
\* DELETE /tickets/{ticket_uid}, by the same user, who remembers the balance
\* the purchase started from.
cancel_purchased(p) ==
    /\ pc[p] = "done"
    /\ loc[p].handler = "purchase_ticket"
    /\ cur[p].op = "create_new_ticket"
    /\ cur[p].result.status = 201
    /\ pc' = [pc EXCEPT ![p] = "c_ticket"]
    /\ cur' = [cur EXCEPT ![p] = Idle]
    /\ loc' = [loc EXCEPT ![p] = [NoLocals EXCEPT !.handler = "cancel_ticket",
                                     !.user = loc[p].user,
                                     !.uid = loc[p].uid,
                                     !.before = loc[p].balance]]
    /\ UNCHANGED <<now, cb, lock, tickets, accounts, history, nextUid, cancelled>>

\* The handler calls a guarded method: admitted, or refused by the breaker.
HandlerEnter(p) ==
    /\ pc[p] \in GuardedLabels
    /\ ~InFlight(p)
    /\ LET c == CallAt(pc[p], loc[p])
       IN  /\ BreakerEnter(p, c.op)
           /\ IF Admission(c.op).go
              THEN /\ cur' = [cur EXCEPT ![p] =
                                [op |-> c.op, a |-> c.a, result |-> NoResult,
                                 attempted |-> TRUE,
                                 trial |-> Admission(c.op).b.state = "HALF_OPEN"]]
                   /\ UNCHANGED <<pc, loc, nextUid, cancelled>>
              ELSE /\ cur' = [cur EXCEPT ![p] =
                                [op |-> c.op, a |-> c.a,
                                 result |-> CircuitOpenException(wrap_cb(c.op)),
                                 attempted |-> FALSE, trial |-> FALSE]]
                   /\ Continue(p, pc[p], CircuitOpenException(wrap_cb(c.op)))
    /\ UNCHANGED <<now, tickets, accounts, history>>

\* The admitted method body runs and the handler goes on with its outcome.
HandlerExit(p, fault) ==
    /\ pc[p] \in GuardedLabels
    /\ InFlight(p)
    /\ LET req == Request(cur[p].op, cur[p].a, tickets, accounts, history, fault)
       IN  /\ BreakerExit(p, cur[p].op, req.result)
           /\ StoresAfter(req)
           /\ cur' = [cur EXCEPT ![p].result = req.result]
           /\ Continue(p, pc[p], req.result)
    /\ UNCHANGED now

\* The handler calls an unguarded (write) method and goes on with its outcome.
HandlerWrite(p, fault) ==
    /\ pc[p] \in WriteLabels
    /\ LET c == CallAt(pc[p], loc[p])
           req == Request(c.op, c.a, tickets, accounts, history, fault)
       IN  /\ StoresAfter(req)
           /\ cur' = [cur EXCEPT ![p] =
                        [op |-> c.op, a |-> c.a, result |-> req.result,
                         attempted |-> TRUE, trial |-> FALSE]]
           /\ Continue(p, pc[p], req.result)
    /\ UNCHANGED <<now, cb, lock>>

\* The response is sent and the worker is free for the next request.
HandlerReturn(p) ==
    /\ pc[p] = "done"
    /\ loc[p].handler # "none"
    /\ pc' = [pc EXCEPT ![p] = "idle"]
    /\ cur' = [cur EXCEPT ![p] = Idle]
    /\ loc' = [loc EXCEPT ![p] = NoLocals]
    /\ UNCHANGED <<now, cb, lock, tickets, accounts, history, nextUid, cancelled>>

OpeningBalances == {300, 500}

\* A whole recovery timeout passes between two steps of the gateway.
Cooldown ==
    /\ now + recovery_timeout * Resolution <= MaxTime
    /\ now' = now + recovery_timeout * Resolution
    /\ UNCHANGED <<cb, lock, tickets, accounts, history, pc, cur, loc, nextUid,
                   cancelled>>

Init ==
    /\ InitCommon
    /\ \E b \in OpeningBalances : accounts = [u \in Users |-> b]

\* One request at a time: purchases by the buyers and cancels by the buyer
\* who has an account.
Next ==
    \/ Cooldown
    \/ \E user \in Buyers, flight \in PurchaseInputs, paid \in BOOLEAN :
          purchase_ticket("p1", user, flight, paid)
    \/ \E user \in Buyers \cap Users, uid \in 1..MaxPurchases :
          cancel_ticket("p1", user, uid)
    \/ HandlerEnter("p1")
    \/ \E fault \in BOOLEAN : HandlerExit("p1", fault)
    \/ \E fault \in BOOLEAN : HandlerWrite("p1", fault)
    \/ HandlerReturn("p1")

Spec == Init /\ [][Next]_vars

\* Two users buying the known flights and cancelling, either any ticket or
\* the one just bought.  Reads are answered; a write may fail.
NextSagas ==
    \/ \E user \in Users, flight \in FlightNumbers, paid \in BOOLEAN :
          purchase_ticket("p1", user, flight, paid)
    \/ \E user \in Users, uid \in 1..MaxPurchases : cancel_ticket("p1", user, uid)
    \/ cancel_purchased("p1")
    \/ HandlerEnter("p1")
    \/ HandlerExit("p1", FALSE)
    \/ \E fault \in BOOLEAN : HandlerWrite("p1", fault)
    \/ HandlerReturn("p1")

SpecSagas == Init /\ [][NextSagas]_vars


(***************************************************************************)
(* The cancel handler over a tickets table it did not fill itself.  The    *)
(* status column is a free string (tickets/main.py 75) and TicketStatus    *)
(* has CANCELED: each identifier is absent, or a ticket of some user,      *)
(* PAID or CANCELED, with or without the ledger entry of its purchase.     *)
(***************************************************************************)
SeedSlots ==
    [1..MaxPurchases -> [present : BOOLEAN, owner : Users,
                         status : {"PAID", "CANCELED"}, entry : BOOLEAN]]

RECURSIVE SeedTickets(_, _)
SeedTickets(slots, n) ==
    IF n = 0 THEN << >>
    ELSE LET rest == SeedTickets(slots, n - 1)
         IN  IF slots[n].present
             THEN Append(rest, [ticket_uid |-> n, username |-> slots[n].owner,
                                flight_number |-> "F1",
                                price |-> FlightPrice("F1"),
                                status |-> slots[n].status])
             ELSE rest

RECURSIVE SeedHistory(_, _)
SeedHistory(slots, n) ==
    IF n = 0 THEN << >>
    ELSE LET rest == SeedHistory(slots, n - 1)
         IN  IF slots[n].present /\ slots[n].entry
             THEN Append(rest, [username |-> slots[n].owner, ticket_uid |-> n,
                                balance_diff |-> accrual(FlightPrice("F1")),
                                operation_type |-> "FILL_IN_BALANCE"])
             ELSE rest

InitCancel ==
    /\ now = 0
    /\ cb = [s \in Services |-> CircuitBreaker(s)]
    /\ lock = [s \in Services |-> NoProc]
    /\ \E slots \in SeedSlots :
          /\ tickets = SeedTickets(slots, MaxPurchases)
          /\ history = SeedHistory(slots, MaxPurchases)
          /\ accounts = [u \in Users |->
                          OpeningBalance
                          + accrual(FlightPrice("F1"))
                            * Cardinality({n \in 1..MaxPurchases :
                                              /\ slots[n].present
                                              /\ slots[n].entry
                                              /\ slots[n].owner = u})]
    /\ pc = [p \in Procs |-> "idle"]
    /\ cur = [p \in Procs |-> Idle]
    /\ loc = [p \in Procs |-> NoLocals]
    /\ nextUid = MaxPurchases
    /\ cancelled = {}

NextCancel ==
    \/ \E user \in Users, uid \in 1..MaxPurchases : cancel_ticket("p1", user, uid)
    \/ HandlerEnter("p1")
    \/ \E fault \in BOOLEAN : HandlerExit("p1", fault)
    \/ \E fault \in BOOLEAN : HandlerWrite("p1", fault)
    \/ HandlerReturn("p1")

SpecCancel == InitCancel /\ [][NextCancel]_vars

\* A GET request arrives: handler, its first call, the caller and the ticket
\* asked for.
ReadHandlers ==
    {<<"retrieve_flights", "f_list">>, <<"retrieve_user_tickets", "t_privilege">>,
     <<"get_current_user_profile", "m_privilege">>,
     <<"retrieve_ticket_details", "d_ticket">>,
     <<"get_user_privilege_info", "v_privilege">>}

read_request(p, h, user, uid) ==
    /\ pc[p] = "idle"
    /\ pc' = [pc EXCEPT ![p] = h[2]]
    /\ loc' = [loc EXCEPT ![p] = [NoLocals EXCEPT !.handler = h[1],
                                     !.user = user, !.uid = uid]]
    /\ UNCHANGED <<now, cb, lock, tickets, accounts, history, cur, nextUid,
                   cancelled>>

\* Every endpoint of the gateway, one request at a time, over a tickets
\* table that already holds tickets.
InitGateway ==
    /\ now = 0
    /\ cb = [s \in Services |-> CircuitBreaker(s)]
    /\ lock = [s \in Services |-> NoProc]
    /\ \E slots \in SeedSlots :
          /\ \A n \in 1..MaxPurchases : slots[n].status = "PAID" /\ slots[n].entry
          /\ tickets = SeedTickets(slots, MaxPurchases - 1)
          /\ history = SeedHistory(slots, MaxPurchases - 1)
          /\ accounts = [u \in Users |->
                          OpeningBalance
                          + accrual(FlightPrice("F1"))
                            * Cardinality({n \in 1..(MaxPurchases - 1) :
                                              /\ slots[n].present
                                              /\ slots[n].owner = u})]
    /\ pc = [p \in Procs |-> "idle"]
    /\ cur = [p \in Procs |-> Idle]
    /\ loc = [p \in Procs |-> NoLocals]
    /\ nextUid = MaxPurchases - 1
    /\ cancelled = {}

NextGateway ==
    \/ \E h \in ReadHandlers, user \in Users \cup {NoAccountUser} :
          \E uid \in IF h[1] = "retrieve_ticket_details"
                      THEN 1..MaxPurchases ELSE {NoUid} :
             read_request("p1", h, user, uid)
    \/ \E user \in Users, flight \in FlightNumbers, paid \in BOOLEAN :
          purchase_ticket("p1", user, flight, paid)
    \/ \E user \in Users, uid \in 1..MaxPurchases : cancel_ticket("p1", user, uid)
    \/ HandlerEnter("p1")
    \/ \E fault \in BOOLEAN : HandlerExit("p1", fault)
    \/ \E fault \in BOOLEAN : HandlerWrite("p1", fault)
    \/ HandlerReturn("p1")

SpecGateway == InitGateway /\ [][NextGateway]_vars

\* The PAID tickets of u1, each with or without the ledger entry of its
\* purchase.
InitRetry ==
    /\ InitCancel
    /\ \A i \in 1..Len(tickets) :
          tickets[i].username = "u1" /\ tickets[i].status = "PAID"

\* Two requests in the gateway at once, each in a worker of its own: purchases
\* paying from the balance.  Every collaborator answers.
NextPurchaseRace ==
    \E p \in Procs :
        \/ \E user \in Users, flight \in FlightNumbers :
              purchase_ticket(p, user, flight, TRUE)
        \/ HandlerEnter(p)
        \/ HandlerExit(p, FALSE)
        \/ HandlerWrite(p, FALSE)
        \/ HandlerReturn(p)

SpecPurchaseRace == Init /\ [][NextPurchaseRace]_vars

\* The tickets service serving the delete the handler asked for: the query
\* of the row (tickets/main.py 138-142), 404 when there is none.  Each request
\* of the service runs in a worker and a database session of its own, so the
\* requests of two callers interleave between the query and the commit.
remove_ticket_query(p) ==
    /\ pc[p] = "c_remove"
    /\ ~InFlight(p)
    /\ LET c == CallAt(pc[p], loc[p])
           found == FirstTicket(tickets, c.a.uid) # 0
           result == ClientResult(c.op, Response(404, NoBody))
       IN  IF found
           THEN /\ cur' = [cur EXCEPT ![p] =
                             [op |-> c.op, a |-> c.a, result |-> NoResult,
                              attempted |-> TRUE, trial |-> FALSE]]
                /\ UNCHANGED <<pc, loc, nextUid, cancelled>>
           ELSE /\ cur' = [cur EXCEPT ![p] =
                             [op |-> c.op, a |-> c.a, result |-> result,
                              attempted |-> TRUE, trial |-> FALSE]]
                /\ Continue(p, pc[p], result)
    /\ UNCHANGED <<now, cb, lock, tickets, accounts, history>>

\* db.delete(ticket_record); db.commit() (tickets/main.py 150-151): the row
\* the query found is deleted if it is still there, and the answer is 204
\* either way: nothing is read again after the query.
remove_ticket_commit(p) ==
    /\ pc[p] = "c_remove"
    /\ InFlight(p)
    /\ LET result == ClientResult(cur[p].op, Response(204, NoBody))
       IN  /\ tickets' = tickets_remove_ticket(tickets, cur[p].a.uid).rows
           /\ cur' = [cur EXCEPT ![p].result = result]
           /\ Continue(p, pc[p], result)
    /\ UNCHANGED <<now, cb, lock, accounts, history>>

\* Two purchases in the gateway at once; a guarded read may fail, a write is
\* answered.
NextPurchaseFaults ==
    \E p \in Procs :
        \/ \E user \in Users, paid \in BOOLEAN : purchase_ticket(p, user, "F1", paid)
        \/ HandlerEnter(p)
        \/ \E fault \in BOOLEAN : HandlerExit(p, fault)
        \/ HandlerWrite(p, FALSE)
        \/ HandlerReturn(p)

SpecPurchaseFaults == Init /\ [][NextPurchaseFaults]_vars

\* Two cancels in the gateway at once, by the owner of the tickets.  Every
\* collaborator answers.
NextCancelRace ==
    \E p \in Procs :
        \/ \E uid \in 1..MaxPurchases : cancel_ticket(p, "u1", uid)
        \/ HandlerEnter(p)
        \/ HandlerExit(p, FALSE)
        \/ pc[p] = "c_revert" /\ HandlerWrite(p, FALSE)
        \/ remove_ticket_query(p)
        \/ remove_ticket_commit(p)
        \/ HandlerReturn(p)

\* The PAID tickets of u1, each with the ledger entry of its purchase.
InitCancelRace ==
    /\ InitRetry
    /\ \A i \in 1..Len(tickets) :
          \E j \in 1..Len(history) : history[j].ticket_uid = tickets[i].ticket_uid

SpecCancelRace == InitCancelRace /\ [][NextCancelRace]_vars

\* A cancel by the owner, and a later one once the first has been answered;
\* reads are answered, a write may fail.
NextCancelAgain ==
    \/ \E uid \in 1..MaxPurchases :
          pc["p2"] = "idle" /\ cancel_ticket("p1", "u1", uid)
    \/ \E uid \in 1..MaxPurchases :
          pc["p1"] = "done" /\ cancel_ticket("p2", "u1", uid)
    \/ \E p \in Procs :
          \/ HandlerEnter(p)
          \/ HandlerExit(p, FALSE)
          \/ \E fault \in BOOLEAN : HandlerWrite(p, fault)
          \/ HandlerReturn(p)

SpecCancelAgain == InitCancelRace /\ [][NextCancelAgain]_vars

(***************************************************************************)
(* The tickets service answering its own clients (tickets/main.py, as      *)
(* tickets/test.py calls it).  A lookup and a delete are one query and     *)
(* one commit; a create is the query for an existing ticket, then the add  *)
(* and commit, and another request may be served between the two.          *)
(***************************************************************************)
StoreAnswer(resp) == [kind |-> "response", status |-> resp.status, body |-> resp.body]

StoreCall(p, op, a, answer) ==
    cur' = [cur EXCEPT ![p] = [op |-> op, a |-> a, result |-> answer,
                               attempted |-> TRUE, trial |-> FALSE]]

\* GET /tickets/{ticket_uid}
store_get_ticket_details(p, uid) ==
    /\ pc[p] = "idle"
    /\ StoreCall(p, "get_ticket_by_uid", [NoArgs EXCEPT !.uid = uid],
                 StoreAnswer(tickets_get_ticket_details(tickets, uid)))
    /\ pc' = [pc EXCEPT ![p] = "done"]
    /\ UNCHANGED <<now, cb, lock, tickets, accounts, history, loc, nextUid,
                   cancelled>>

\* DELETE /tickets/{ticket_uid}
store_remove_ticket(p, uid) ==
    /\ pc[p] = "idle"
    /\ StoreCall(p, "remove_ticket", [NoArgs EXCEPT !.uid = uid],
                 StoreAnswer(tickets_remove_ticket(tickets, uid).resp))
    /\ tickets' = tickets_remove_ticket(tickets, uid).rows
    /\ pc' = [pc EXCEPT ![p] = "done"]
    /\ UNCHANGED <<now, cb, lock, accounts, history, loc, nextUid, cancelled>>

\* The requests whose add is still to come.
Adding == {q \in Procs : pc[q] = "s_add"}

\* POST /tickets, lines 110-121: the query for an existing ticket, and the 403.
store_create_query(p, a) ==
    /\ pc[p] = "idle"
    /\ Len(tickets) + Cardinality(Adding) < MaxRows
    /\ IF TicketExists(tickets, a.uid)
       THEN /\ StoreCall(p, "create_new_ticket", a, StoreAnswer(Response(403, NoBody)))
            /\ pc' = [pc EXCEPT ![p] = "done"]
       ELSE /\ StoreCall(p, "create_new_ticket", a, NoResult)
            /\ pc' = [pc EXCEPT ![p] = "s_add"]
    /\ UNCHANGED <<now, cb, lock, tickets, accounts, history, loc, nextUid,
                   cancelled>>

\* POST /tickets, lines 123-133: the add and the commit.
store_create_commit(p) ==
    /\ pc[p] = "s_add"
    /\ tickets' = tickets_add(tickets, cur[p].a)
    /\ cur' = [cur EXCEPT ![p].result = StoreAnswer(Response(201, NoBody))]
    /\ pc' = [pc EXCEPT ![p] = "done"]
    /\ UNCHANGED <<now, cb, lock, accounts, history, loc, nextUid, cancelled>>

StoreCreates ==
    {Args(u, n, f, FlightPrice(f), 0, "FILL_IN_BALANCE") :
        u \in Users, n \in 1..MaxPurchases, f \in FlightNumbers}

StoreRequests(p) ==
    \/ \E uid \in 1..MaxPurchases : store_get_ticket_details(p, uid)
    \/ \E uid \in 1..MaxPurchases : store_remove_ticket(p, uid)
    \/ \E a \in StoreCreates : store_create_query(p, a)
    \/ store_create_commit(p)
    \/ ClientReturn(p)

\* A table of tickets with distinct identifiers, as requests served one after
\* the other leave it.
InitStore ==
    /\ InitCancel
    /\ \A i \in 1..Len(tickets) : tickets[i].status = "PAID"

\* One request at a time.
NextStore == StoreRequests("p1")

SpecStore == InitStore /\ [][NextStore]_vars

\* Two requests at once.
NextStoreRace == \E p \in Procs : StoreRequests(p)

SpecStoreRace == InitStore /\ [][NextStoreRace]_vars

(***************************************************************************)
(* cancel_with_retry (gateway/main.py 239-252).  No endpoint calls it; it  *)
(* is called here as a function of the gateway, with a deadline of         *)
(* max_seconds, over a ledger that holds the entry or not.                 *)
(***************************************************************************)
RetryBudgets == 0..MaxSeconds
RetryHorizon == (MaxSeconds + interval) * Resolution

cancel_with_retry(p, user, uid, max_seconds, named) ==
    /\ pc[p] = "idle"
    /\ now + max_seconds * Resolution <= RetryHorizon
    /\ pc' = [pc EXCEPT ![p] = "r_while"]
    /\ loc' = [loc EXCEPT ![p] = [NoLocals EXCEPT
                                     !.handler = "cancel_with_retry",
                                     !.user = user, !.uid = uid, !.named = named,
                                     !.max_seconds = max_seconds,
                                     !.deadline = now + max_seconds * Resolution]]
    /\ UNCHANGED <<now, cb, lock, tickets, accounts, history, cur, nextUid,
                   cancelled>>

\* A step of cancel_with_retry between two client calls: the while test, or
\* time.sleep(interval).
RetryStep(p) ==
    /\ pc[p] \in {"r_while", "r_sleep"}
    /\ IF pc[p] = "r_sleep"
       THEN /\ now + interval * Resolution <= RetryHorizon
            /\ now' = now + interval * Resolution
            /\ pc' = [pc EXCEPT ![p] = "r_while"]
            /\ loc' = [loc EXCEPT ![p].slept = TRUE]
            /\ UNCHANGED nextUid
       ELSE /\ now < loc[p].deadline => loc[p].polls < MaxPolls
            /\ LET k == retry_while(loc[p], now, nextUid)
               IN  /\ pc' = [pc EXCEPT ![p] = k.pc]
                   /\ loc' = [loc EXCEPT ![p] = k.loc]
                   /\ nextUid' = k.nextUid
            /\ UNCHANGED now
    /\ UNCHANGED <<cb, lock, tickets, accounts, history, cur, cancelled>>

\* Time passes while cancel_with_retry runs.
Elapse ==
    /\ now < RetryHorizon
    /\ now' = now + 1
    /\ UNCHANGED <<cb, lock, tickets, accounts, history, pc, cur, loc, nextUid,
                   cancelled>>

\* The function as written, next to the cancel endpoint.
NextRetry ==
    \/ \E user \in Users, uid \in 1..MaxPurchases, max_seconds \in RetryBudgets :
          cancel_with_retry("p1", user, uid, max_seconds, FALSE)
    \/ \E uid \in 1..MaxPurchases : cancel_ticket("p1", "u1", uid)
    \/ RetryStep("p1")
    \/ Elapse
    \/ HandlerEnter("p1")
    \/ \E fault \in BOOLEAN : HandlerExit("p1", fault)
    \/ \E fault \in BOOLEAN : HandlerWrite("p1", fault)
    \/ HandlerReturn("p1")

SpecRetry == InitRetry /\ [][NextRetry]_vars

\* The function over a client that answers to the two names it reads.
NextRetryNamed ==
    \/ \E user \in Users, uid \in 1..MaxPurchases, max_seconds \in RetryBudgets :
          cancel_with_retry("p1", user, uid, max_seconds, TRUE)
    \/ RetryStep("p1")
    \/ Elapse
    \/ HandlerEnter("p1")
    \/ \E fault \in BOOLEAN : HandlerExit("p1", fault)
    \/ \E fault \in BOOLEAN : HandlerWrite("p1", fault)
    \/ HandlerReturn("p1")

SpecRetryNamed == InitRetry /\ [][NextRetryNamed]_vars

(***************************************************************************)
(* Steps of a caller, as seen from the state before and after.             *)
(***************************************************************************)
\* Caller p issues a call of a guarded method.
IssuesGuarded(p) == pc[p] = "idle" /\ pc'[p] # "idle" /\ cur'[p].op \in GuardedOps

\* Caller p issues a call of a write method.
IssuesWrite(p) == pc[p] = "idle" /\ pc'[p] # "idle" /\ cur'[p].op \in WriteOps

\* The admitted call of caller p ends.
EndsCall(p) == pc[p] = "in_call" /\ pc'[p] = "done"

\* The call is refused by the breaker and nothing is sent.
Refused(p) ==
    /\ pc'[p] = "done"
    /\ cur'[p].result.kind = "CircuitOpenException"
    /\ ~cur'[p].attempted
    /\ UNCHANGED <<cb, tickets, accounts, history>>

OpenAndCooling(b) ==
    b.state = "OPEN" /\ now - b.last_failure_time < recovery_timeout * Resolution

OpenAndElapsed(b) ==
    b.state = "OPEN" /\ now - b.last_failure_time >= recovery_timeout * Resolution

(***************************************************************************)
(* C1: with failure_threshold = 1 the first failed protected call moves    *)
(* the breaker CLOSED -> OPEN; a protected call made while OPEN and before *)
(* recovery_timeout has elapsed since last_failure_time is refused with    *)
(* CircuitOpenException and no request is sent; a protected call made once *)
(* recovery_timeout has elapsed is let through as the HALF_OPEN trial.     *)
(***************************************************************************)
C1_Step(p) ==
    /\ (EndsCall(p) /\ cb[wrap_cb(cur[p].op)].state = "CLOSED"
            /\ ~IsReturn(cur'[p].result))
        => /\ cb'[wrap_cb(cur[p].op)].state = "OPEN"
           /\ cb'[wrap_cb(cur[p].op)].last_failure_time = now
    /\ (IssuesGuarded(p) /\ OpenAndCooling(cb[wrap_cb(cur'[p].op)]))
        => Refused(p)
    /\ (IssuesGuarded(p) /\ OpenAndElapsed(cb[wrap_cb(cur'[p].op)]))
        => /\ pc'[p] = "in_call"
           /\ cur'[p].attempted
           /\ cur'[p].trial
           /\ cb'[wrap_cb(cur'[p].op)].state = "HALF_OPEN"

C1_Breaker == [][\A p \in Procs : C1_Step(p)]_vars

\* A trial in flight at tick 3 (1.5 time units) on a breaker that tripped at
\* tick 0.
C1_Witness ==
    /\ pc["p1"] = "in_call"
    /\ cur["p1"].trial
    /\ cb[wrap_cb(cur["p1"].op)].state = "HALF_OPEN"
    /\ cb[wrap_cb(cur["p1"].op)].last_failure_time = 0
    /\ now = 3

(***************************************************************************)
(* C2: a HALF_OPEN trial that succeeds leaves the breaker CLOSED with      *)
(* failure_count = 0; one that fails leaves it OPEN with last_failure_time *)
(* set to the time of that failure, and calls are refused until the whole  *)
(* recovery_timeout has elapsed again.                                     *)
(***************************************************************************)
C2_Step(p) ==
    /\ (EndsCall(p) /\ cur[p].trial /\ IsReturn(cur'[p].result))
        => /\ cb'[wrap_cb(cur[p].op)].state = "CLOSED"
           /\ cb'[wrap_cb(cur[p].op)].failure_count = 0
    /\ (EndsCall(p) /\ cur[p].trial /\ ~IsReturn(cur'[p].result))
        => /\ cb'[wrap_cb(cur[p].op)].state = "OPEN"
           /\ cb'[wrap_cb(cur[p].op)].last_failure_time = now
    /\ (pc'[p] = "in_call" /\ cur'[p].trial)
        => now' - cb'[wrap_cb(cur'[p].op)].last_failure_time
              >= recovery_timeout * Resolution

C2_Trial == [][\A p \in Procs : C2_Step(p)]_vars

\* A call refused one tick after a trial failed at tick 2.
C2_Witness ==
    /\ pc["p1"] = "done"
    /\ cur["p1"].result.kind = "CircuitOpenException"
    /\ cb[wrap_cb(cur["p1"].op)].state = "OPEN"
    /\ cb[wrap_cb(cur["p1"].op)].last_failure_time = 2
    /\ now = 3

(***************************************************************************)
(* C3: at most one call per breaker is in flight as the HALF_OPEN trial.   *)
(***************************************************************************)
Trials(s) ==
    {p \in Procs : pc[p] = "in_call" /\ cur[p].trial /\ wrap_cb(cur[p].op) = s}

C4_Step(p) ==
    /\ EndsCall(p)
        => /\ \A s \in Services \ {TargetOf(cur[p].op)} : cb'[s] = cb[s]
           /\ ~IsReturn(cur'[p].result) => cb'[TargetOf(cur[p].op)].state = "OPEN"
    /\ (IssuesGuarded(p) /\ OpenAndCooling(cb[TargetOf(cur'[p].op)]))
        => Refused(p)
    /\ (IssuesGuarded(p) /\ pc'[p] = "done")
        => cur'[p].result.body.service = TargetOf(cur'[p].op)

C5_Step(p) ==
    IssuesWrite(p)
        => /\ cur'[p].attempted
           /\ cur'[p].result.kind # "CircuitOpenException"

C5_WritesNotGuarded == [][\A p \in Procs : C5_Step(p)]_vars

\* A write has reached a collaborator whose breaker is OPEN and cooling.
C5_Witness ==
    /\ pc["p1"] = "done"
    /\ cur["p1"].op \in WriteOps
    /\ cur["p1"].attempted
    /\ IsReturn(cur["p1"].result)
    /\ OpenAndCooling(cb[TargetOf(cur["p1"].op)])

(***************************************************************************)
(* C6: each of the four lookup calls (flight by number, ticket by uid,     *)
(* account by username, ledger entry by uid) returns None, and does not    *)
(* raise, when the collaborator answers 404.                               *)
(***************************************************************************)
LookupOps == {"get_flight_by_number", "get_ticket_by_uid", "get_user_privilege",
              "get_user_privilege_transaction"}

C6_NotFoundIsNone ==
    \A p \in Procs :
        (pc[p] = "done" /\ cur[p].op \in LookupOps /\ cur[p].result.status = 404)
            => cur[p].result.kind = "None"

(***************************************************************************)
(* Purchases, as seen in the handler's locals.                             *)
(***************************************************************************)
\* The handler of p is a purchase that has computed its payment split.
HasSplit(p) == loc[p].handler = "purchase_ticket" /\ loc[p].uid # NoUid

\* The purchase of p has made its last call and the tickets service has
\* stored its ticket.
Purchased(p) ==
    /\ pc[p] = "done"
    /\ loc[p].handler = "purchase_ticket"
    /\ cur[p].op = "create_new_ticket"
    /\ cur[p].result.status = 201

EntriesOf(uid) == {i \in 1..Len(history) : history[i].ticket_uid = uid}
TicketsOf(uid) == {i \in 1..Len(tickets) : tickets[i].ticket_uid = uid}

(***************************************************************************)
(* C7: in a purchase paying from a balance >= 0, bonus_payment is the      *)
(* smaller of the balance read at step 2 and the flight price, and         *)
(* cash_payment = price - bonus_payment: 0 <= bonus <= balance, cash >= 0, *)
(* bonus + cash = price; 500/400 gives 400/0 and 300/1000 gives 300/700.   *)
(***************************************************************************)
C7_Split ==
    \A p \in Procs :
        (HasSplit(p) /\ loc[p].paid /\ loc[p].balance >= 0)
            => /\ loc[p].price = FlightPrice(loc[p].flight)
               /\ 0 <= loc[p].bonus_payment
               /\ loc[p].bonus_payment <= loc[p].balance
               /\ loc[p].bonus_payment <= loc[p].price
               /\ loc[p].bonus_payment \in {loc[p].balance, loc[p].price}
               /\ loc[p].cash_payment >= 0
               /\ loc[p].bonus_payment + loc[p].cash_payment = loc[p].price
               /\ (loc[p].balance = 500 /\ loc[p].price = 400)
                     => loc[p].bonus_payment = 400 /\ loc[p].cash_payment = 0
               /\ (loc[p].balance = 300 /\ loc[p].price = 1000)
                     => loc[p].bonus_payment = 300 /\ loc[p].cash_payment = 700
               /\ Purchased(p)
                     => \A i \in TicketsOf(loc[p].uid) :
                           tickets[i].price = loc[p].cash_payment

\* Balance 300, price 1000, paid from balance: 300 in bonuses, 700 in cash, and
\* the balance read back after the debit is 0.
C7_Witness ==
    /\ Purchased("p1")
    /\ loc["p1"].paid
    /\ loc["p1"].balance = 300
    /\ loc["p1"].price = 1000
    /\ loc["p1"].bonus_payment = 300
    /\ loc["p1"].cash_payment = 700
    /\ loc["p1"].updated = 0

(***************************************************************************)
(* C8: a purchase appends at most one ledger entry, tagged with the fresh  *)
(* identifier its ticket carries: not paying from balance, exactly one     *)
(* FILL_IN_BALANCE entry of price // 10, with bonus_payment = 0 and        *)
(* cash_payment = price; paying from balance, one DEBIT_THE_ACCOUNT entry  *)
(* of bonus_payment if it is > 0 and none if it is 0.                      *)
(***************************************************************************)
\* d = n // 10
IsTenth(d, n) == 10 * d <= n /\ n < 10 * d + 10

C8_Entry(p) ==
    LET l == loc[p]
        only == CHOOSE i \in EntriesOf(l.uid) : TRUE
    IN  /\ Cardinality(EntriesOf(l.uid)) <= 1
        /\ pc[p] = "p_ledger" => EntriesOf(l.uid) = {} /\ TicketsOf(l.uid) = {}
        /\ Purchased(p) =>
              /\ Cardinality(TicketsOf(l.uid)) = 1
              /\ \A i \in TicketsOf(l.uid) :
                    /\ tickets[i].username = l.user
                    /\ tickets[i].price = l.cash_payment
              /\ ~l.paid =>
                    /\ l.bonus_payment = 0
                    /\ l.cash_payment = FlightPrice(l.flight)
                    /\ Cardinality(EntriesOf(l.uid)) = 1
                    /\ history[only].username = l.user
                    /\ history[only].operation_type = "FILL_IN_BALANCE"
                    /\ IsTenth(history[only].balance_diff, FlightPrice(l.flight))
              /\ (l.paid /\ l.bonus_payment > 0) =>
                    /\ Cardinality(EntriesOf(l.uid)) = 1
                    /\ history[only].username = l.user
                    /\ history[only].operation_type = "DEBIT_THE_ACCOUNT"
                    /\ history[only].balance_diff = l.bonus_payment
              /\ (l.paid /\ l.bonus_payment = 0) => EntriesOf(l.uid) = {}

C8_OneEntry == \A p \in Procs : HasSplit(p) => C8_Entry(p)

\* A purchase of the 400 flight not paid from balance has returned, with its
\* FILL_IN_BALANCE entry of 40 in the ledger.
C8_Witness ==
    /\ Purchased("p1")
    /\ ~loc["p1"].paid
    /\ loc["p1"].cash_payment = 400
    /\ \E i \in EntriesOf(loc["p1"].uid) :
          history[i].balance_diff = 40 /\ history[i].operation_type = "FILL_IN_BALANCE"

(***************************************************************************)
(* C9: a purchase whose flight lookup is answered 404 ends in a validation *)
(* failure returned to the caller, and writes neither a ledger entry nor a *)
(* ticket.                                                                 *)
(***************************************************************************)
C9_Step(p) ==
    (pc[p] = "p_flight" /\ pc'[p] # "p_flight" /\ cur'[p].result.status = 404)
        => /\ pc'[p] = "done"
           /\ loc'[p].response.kind = "ValidationErrorResponse"
           /\ UNCHANGED <<tickets, accounts, history>>

C9_UnknownFlight == [][\A p \in Procs : C9_Step(p)]_vars

(***************************************************************************)
(* C10: the loyalty balance is never negative, whatever purchases and      *)
(* cancels a user completes from a balance >= 0.                           *)
(***************************************************************************)
C10_BalanceNonNegative == \A u \in DOMAIN accounts : accounts[u] >= 0

(***************************************************************************)
(* C11.  In every reachable state the balance of an account is its opening *)
(* balance plus the signed sum of the ledger entries still present for it: *)
(* FILL_IN_BALANCE entries count +balance_diff, DEBIT_THE_ACCOUNT entries  *)
(* count -balance_diff.  Appending an entry therefore moves the balance by *)
(* its signed amount (500 with DEBIT 150 is 350) and deleting it undoes    *)
(* that amount.                                                            *)
(***************************************************************************)
RECURSIVE LedgerSum(_, _)
LedgerSum(rows, user) ==
    IF rows = <<>> THEN 0
    ELSE LET e == Head(rows)
             signed == CASE e.operation_type = "FILL_IN_BALANCE" -> e.balance_diff
                         [] e.operation_type = "DEBIT_THE_ACCOUNT" -> 0 - e.balance_diff
         IN  (IF e.username = user THEN signed ELSE 0) + LedgerSum(Tail(rows), user)

C11_BalanceIsLedgerSum ==
    \A u \in DOMAIN accounts :
        accounts[u] = OpeningBalance + LedgerSum(history, u)

\* An entry has been deleted while a debit of 150 is still present: the
\* balance stands at 500 - 150.
C11_Witness ==
    /\ cur["p1"].op = "revert_transaction"
    /\ IsReturn(cur["p1"].result)
    /\ history = <<[username |-> "u1", ticket_uid |-> 1, balance_diff |-> 150,
                    operation_type |-> "DEBIT_THE_ACCOUNT"]>>
    /\ accounts["u1"] = 350

(***************************************************************************)
(* C12.  A purchase followed immediately by the cancel of its ticket, with *)
(* no fault in either and nothing else done on the account, is a round     *)
(* trip: once the cancel has succeeded the balance is the one the purchase *)
(* started from (paying from balance or not), no ledger entry tagged with  *)
(* the ticket identifier remains, and the lookup of the ticket by uid      *)
(* gives not-found.                                                        *)
(***************************************************************************)
RoundTripDone(p) ==
    /\ pc[p] = "done"
    /\ loc[p].handler = "cancel_ticket"
    /\ loc[p].before # -1
    /\ loc[p].response.code = 204

C12_RoundTrip ==
    \A p \in Procs :
        RoundTripDone(p) =>
            /\ accounts[loc[p].user] = loc[p].before
            /\ \A i \in 1..Len(history) : history[i].ticket_uid # loc[p].uid
            /\ ClientResult("get_ticket_by_uid",
                            tickets_get_ticket_details(tickets, loc[p].uid)).kind
                  = "None"

\* A round trip has ended for the first ticket sold, on an account that
\* stood at 300 when it was bought.
C12_Witness ==
    /\ RoundTripDone("p1")
    /\ loc["p1"].before = 300
    /\ accounts["u1"] = 300
    /\ loc["p1"].uid = 1

(***************************************************************************)
(* C13.  A successful cancel of ticket T removes exactly the one ledger    *)
(* entry tagged T, if there is one, and deletes exactly the ticket T:      *)
(* every other ticket and every ledger entry tagged with another           *)
(* identifier, of the same or of another user, is left as it was, whatever *)
(* step of the cancel is taken.                                            *)
(***************************************************************************)
CancelLabels == {"c_ticket", "c_record", "c_revert", "c_remove"}

C13_Step(p) ==
    LET T == loc[p].uid
        Others(rows) == SelectSeq(rows, LAMBDA r : r.ticket_uid # T)
    IN  (pc[p] \in CancelLabels) =>
            /\ Others(tickets') = Others(tickets)
            /\ Others(history') = Others(history)
            /\ Len(tickets) - Len(tickets') \in {0, 1}
            /\ Len(history) - Len(history') \in {0, 1}
            /\ \A u \in DOMAIN accounts :
                  u # loc[p].user => accounts'[u] = accounts[u]
            /\ (pc'[p] = "done" /\ loc'[p].response.code = 204) =>
                  /\ tickets' = Others(tickets)
                  /\ history' = Others(history')
                  /\ Len(tickets') = Len(tickets) - 1

C13_CancelFrame == [][\A p \in Procs : C13_Step(p)]_vars

\* A cancel has succeeded while the ticket of another user and that ticket's
\* ledger entry are still there.
C13_Witness ==
    /\ pc["p1"] = "done"
    /\ loc["p1"].handler = "cancel_ticket"
    /\ loc["p1"].response.code = 204
    /\ Len(tickets) = 1
    /\ tickets[1].username # loc["p1"].user
    /\ Len(history) = 1
    /\ history[1].ticket_uid = tickets[1].ticket_uid

(***************************************************************************)
(* C14.  Once a cancel of ticket T has succeeded, every later cancel of T, *)
(* by whichever caller, fails, and no step of it changes the ledger or the *)
(* ticket store.                                                           *)
(***************************************************************************)
C14_Step(p) ==
    (pc[p] \in CancelLabels /\ loc[p].uid \in cancelled) =>
        /\ tickets' = tickets
        /\ history' = history
        /\ accounts' = accounts
        /\ pc'[p] = "done" => loc'[p].response.code >= 400

C14_SecondCancelFails == [][\A p \in Procs : C14_Step(p)]_vars

\* A cancel of a ticket cancelled before has been answered 404, while
\* another ticket is in the store.
C14_Witness ==
    /\ pc["p1"] = "done"
    /\ loc["p1"].handler = "cancel_ticket"
    /\ loc["p1"].uid \in cancelled
    /\ loc["p1"].response.code = 404
    /\ Len(tickets) = 1

(***************************************************************************)
(* C15.  The cancel saga checks existence, then ownership, then status,    *)
(* and a failing check ends it before any write: an unknown ticket is      *)
(* answered 404, a ticket of another user 403 (whatever its status), a     *)
(* ticket of the caller that is not PAID 400; in the three cases no ledger *)
(* entry and no ticket is deleted.                                         *)
(***************************************************************************)
\* The caller p learns in this step what the tickets service answered to its
\* lookup.
LookupAnswered(p) ==
    /\ pc[p] = "c_ticket"
    /\ InFlight(p)
    /\ IsReturn(cur'[p].result)

C15_Step(p) ==
    LET T == loc[p].uid
        rows == {i \in 1..Len(tickets) : tickets[i].ticket_uid = T}
        Ends(code) == /\ pc'[p] = "done"
                      /\ loc'[p].response.code = code
                      /\ loc'[p].response.kind = "ErrorResponse"
    IN  /\ pc[p] = "c_ticket" =>
              tickets' = tickets /\ history' = history /\ accounts' = accounts
        /\ LookupAnswered(p) =>
              IF rows = {} THEN Ends(404)
              ELSE IF \E i \in rows : tickets[i].username # loc[p].user
              THEN Ends(403)
              ELSE IF \E i \in rows : tickets[i].status # "PAID"
              THEN Ends(400)
              ELSE pc'[p] = "c_record"

C15_ChecksInOrder == [][\A p \in Procs : C15_Step(p)]_vars

\* The cancel of a CANCELED ticket by its owner has been answered 400, with
\* the ticket and its ledger entry still there.
C15_Witness ==
    /\ pc["p1"] = "done"
    /\ loc["p1"].handler = "cancel_ticket"
    /\ loc["p1"].response.code = 400
    /\ \E i \in 1..Len(tickets) :
          /\ tickets[i].ticket_uid = loc["p1"].uid
          /\ tickets[i].username = loc["p1"].user
          /\ tickets[i].status = "CANCELED"
    /\ \E i \in 1..Len(history) : history[i].ticket_uid = loc["p1"].uid

(***************************************************************************)
(* C16.  Creating a ticket whose identifier is already in the ticket store *)
(* fails with 403 and leaves the store as it was: the existing ticket      *)
(* keeps its username, flight number, price and status, and no second row  *)
(* with that identifier is added.                                          *)
(***************************************************************************)
C16_Step(p) ==
    (/\ IssuesWrite(p)
     /\ cur'[p].op = "create_new_ticket"
     /\ cur'[p].result.kind # "ConnectionError"
     /\ \E i \in 1..Len(tickets) : tickets[i].ticket_uid = cur'[p].a.uid)
        => /\ cur'[p].result.kind = "HTTPError"
           /\ cur'[p].result.status = 403
           /\ tickets' = tickets

C16_DuplicateRefused == [][\A p \in Procs : C16_Step(p)]_vars

\* The ticket of u1 for F1 is in the store and a create with its identifier
\* for u2 and F2 has been refused with 403.
C16_Witness ==
    /\ pc["p1"] = "done"
    /\ cur["p1"].op = "create_new_ticket"
    /\ cur["p1"].a.user = "u2"
    /\ cur["p1"].result.status = 403
    /\ tickets = <<[ticket_uid |-> 1, username |-> "u1", flight_number |-> "F1",
                    price |-> 400, status |-> "PAID"]>>

(***************************************************************************)
(* C17.  In the purchase saga the ledger append comes before the ticket    *)
(* creation and nothing compensates it: when the ticket creation fails     *)
(* after the ledger append succeeded, the saga ends with the ledger entry  *)
(* and its balance effect in place and with no ticket of that identifier   *)
(* in the ticket store.                                                    *)
(***************************************************************************)
\* The purchase of p has ended on a create_new_ticket call that raised.
CreateFailed(p) ==
    /\ pc[p] = "done"
    /\ loc[p].handler = "purchase_ticket"
    /\ cur[p].op = "create_new_ticket"
    /\ ~IsReturn(cur[p].result)

C17_LedgerWithoutTicket ==
    \A p \in Procs :
        /\ (pc[p] = "p_ledger") => TicketsOf(loc[p].uid) = {}
        /\ CreateFailed(p) =>
              /\ (~loc[p].paid \/ loc[p].bonus_payment > 0)
                    => EntriesOf(loc[p].uid) # {}
              /\ TicketsOf(loc[p].uid) = {}

\* A purchase with earned bonus has appended its entry and failed on the
\* ticket creation: the entry is in the ledger, the balance has its accrual,
\* and the store has no ticket of the identifier.
C17_Witness ==
    /\ CreateFailed("p1")
    /\ ~loc["p1"].paid
    /\ loc["p1"].response.code = 500
    /\ \E i \in EntriesOf(loc["p1"].uid) :
          /\ history[i].operation_type = "FILL_IN_BALANCE"
          /\ accounts[loc["p1"].user] >= loc["p1"].balance + history[i].balance_diff
    /\ TicketsOf(loc["p1"].uid) = {}

(***************************************************************************)
(* C18.  GET /me answers with a successful, degraded profile whenever the  *)
(* only faults it meets are open breakers: with the loyalty breaker open   *)
(* the account is treated as absent and the tickets are still returned,    *)
(* with the ticket breaker open the list is empty and the loyalty snapshot *)
(* is still returned; an open breaker never fails the request.             *)
(***************************************************************************)
\* GET /me of an account holder has ended, every call of it having returned
\* or been refused by an open breaker.
ProfileDone(p) ==
    /\ pc[p] = "done"
    /\ loc[p].handler = "get_current_user_profile"
    /\ loc[p].user \in DOMAIN accounts
    /\ \/ IsReturn(cur[p].result)
       \/ cur[p].result.kind = "CircuitOpenException"

C18_DegradedProfile ==
    \A p \in Procs :
        ProfileDone(p) =>
            /\ loc[p].response.code = 200
            /\ loc[p].response.kind = "UserInfoResponse"
            /\ (cur[p].op = "get_user_tickets" /\ ~IsReturn(cur[p].result))
                  => loc[p].response.tickets = << >>
            /\ ~loc[p].privilege_absent
                  => loc[p].response.balance = accounts[loc[p].user]

\* The part of C18 the handler does keep: with the ticket or the flights
\* breaker open and the loyalty account read, the answer is the profile with
\* an empty ticket list and the balance of the account.
C18_TicketSideDegrades ==
    \A p \in Procs :
        (ProfileDone(p) /\ ~loc[p].privilege_absent) =>
            /\ loc[p].response.code = 200
            /\ loc[p].response.balance = accounts[loc[p].user]
            /\ ~IsReturn(cur[p].result) => loc[p].response.tickets = << >>

(***************************************************************************)
(* C19.  GET /tickets is a best-effort aggregation: when the ticket        *)
(* breaker is open it returns an empty ticket list rather than failing.    *)
(***************************************************************************)
\* GET /tickets of p has ended on a get_user_tickets call the open ticket
\* breaker refused.
TicketListRefused(p) ==
    /\ pc[p] = "done"
    /\ loc[p].handler = "retrieve_user_tickets"
    /\ cur[p].op = "get_user_tickets"
    /\ cur[p].result.kind = "CircuitOpenException"

C19_EmptyListWhenOpen ==
    \A p \in Procs :
        TicketListRefused(p) =>
            /\ loc[p].response.code = 200
            /\ loc[p].response.tickets = << >>

(***************************************************************************)
(* C20.  An open breaker refusing a guarded call of a handler that does    *)
(* not catch the refusal itself (flights list, tickets list, ticket        *)
(* detail, purchase, cancel, privilege) ends the handler there: the answer *)
(* is 503 with the message naming the service of the refused method, the   *)
(* refused request is not sent, and no later step of the handler runs, so  *)
(* the stores stay as they were until the response is returned.            *)
(***************************************************************************)
UncaughtLabels == GuardedLabels \ CaughtLabels

\* The handler of p is refused at a call it does not guard with a try.
RefusedUncaught(p) ==
    /\ pc[p] \in UncaughtLabels
    /\ cur'[p] # cur[p]
    /\ cur'[p].result.kind = "CircuitOpenException"

\* The handler of p has been answered for an open breaker.
Unavailable(p) == pc[p] = "done" /\ loc[p].response.code = 503

C20_Step(p) ==
    /\ RefusedUncaught(p) =>
          /\ pc'[p] = "done"
          /\ loc'[p].response.code = 503
          /\ loc'[p].response.kind = "ErrorResponse"
          /\ loc'[p].response.message = TargetOf(cur'[p].op)
          /\ cb[TargetOf(cur'[p].op)].state = "OPEN"
          /\ ~cur'[p].attempted
          /\ UNCHANGED <<tickets, accounts, history>>
    /\ Unavailable(p) =>
          /\ pc'[p] \in {"done", "idle"}
          /\ UNCHANGED <<tickets, accounts, history, cb>>

C20_UniformUnavailable == [][\A p \in Procs : C20_Step(p)]_vars

\* A cancel by the owner of a stored ticket found the ticket, was refused at
\* the ledger lookup by the open loyalty breaker and was answered 503 naming
\* the loyalty service; the ticket and its ledger entry are still there.
C20_Witness ==
    /\ Unavailable("p1")
    /\ loc["p1"].handler = "cancel_ticket"
    /\ cur["p1"].op = "get_user_privilege_transaction"
    /\ loc["p1"].response.message = BonusName
    /\ \E i \in 1..Len(tickets) :
          /\ tickets[i].ticket_uid = loc["p1"].uid
          /\ tickets[i].username = loc["p1"].user
    /\ EntriesOf(loc["p1"].uid) # {}

(***************************************************************************)
(* C21.  cancel_with_retry polls the ledger lookup for (username, ticket   *)
(* identifier); a refusal by the open loyalty breaker is answered by       *)
(* sleeping one interval and polling again; once a poll has observed the   *)
(* entry the compensating delete of that entry is made exactly once and    *)
(* the polling stops.  So an invocation ends without a poll only by its    *)
(* deadline, never ends on a poll that observed the entry, and deletes at  *)
(* most once, the entry being gone after the delete.                       *)
(***************************************************************************)
\* cancel_with_retry of p has returned or raised.
RetryDone(p) == pc[p] = "done" /\ loc[p].handler = "cancel_with_retry"

C21_PollThenDelete ==
    \A p \in Procs :
        /\ RetryDone(p) =>
              /\ loc[p].polls = 0 =>
                    /\ loc[p].response.kind = "returned"
                    /\ now >= loc[p].deadline
              /\ ~(/\ cur[p].op = "get_user_privilege_transaction"
                   /\ cur[p].result.kind = "value")
              /\ loc[p].deletes <= 1
              /\ loc[p].deletes = 1 =>
                    /\ FirstEntry(history, loc[p].user, loc[p].uid) = 0
                    /\ cur[p].op = "revert_transaction"
        /\ (pc[p] = "r_sleep") => cur[p].result.kind = "CircuitOpenException"

\* The entry of ticket 1 was observed by the second poll, after a refusal and
\* a sleep, and has been deleted, over a client that answers to the names.
C21_NamedWitness ==
    /\ RetryDone("p1")
    /\ loc["p1"].polls = 2
    /\ loc["p1"].unslept = 0
    /\ loc["p1"].deletes = 1
    /\ FirstEntry(history, loc["p1"].user, loc["p1"].uid) = 0

(***************************************************************************)
(* C22.  The loop of cancel_with_retry stops after the compensating delete *)
(* or when the deadline expires, and when the deadline expires without the *)
(* entry having been observed the call fails instead of completing as if   *)
(* it had succeeded: it returns normally only after it has deleted.        *)
(***************************************************************************)
C22_FailsAtDeadline ==
    \A p \in Procs :
        (RetryDone(p) /\ loc[p].response.kind = "returned")
            => loc[p].deletes = 1

DetailLooked(p) ==
    /\ loc[p].handler = "retrieve_ticket_details"
    /\ pc[p] \in {"d_flight", "done"}
    /\ cur[p].op = "get_flight_by_number" \/ IsReturn(cur[p].result)

\* The stored ticket with identifier uid belongs to user.
OwnedBy(uid, user) ==
    \E i \in 1..Len(tickets) :
        tickets[i].ticket_uid = uid /\ tickets[i].username = user

C24_OwnershipChecked ==
    \A p \in Procs :
        DetailLooked(p) =>
            /\ TicketsOf(loc[p].uid) = {}
                  => pc[p] = "done" /\ loc[p].response.code = 404
            /\ (TicketsOf(loc[p].uid) # {} /\ ~OwnedBy(loc[p].uid, loc[p].user))
                  => /\ pc[p] = "done"
                     /\ loc[p].response.code = 403
                     /\ loc[p].response.ticketUid = NoUid
                     /\ loc[p].response.paidByMoney = 0
                     /\ loc[p].price = 0
            /\ (pc[p] = "done" /\ loc[p].response.code = 200)
                  => /\ OwnedBy(loc[p].uid, loc[p].user)
                     /\ loc[p].response.ticketUid = loc[p].uid
                     /\ \E i \in TicketsOf(loc[p].uid) :
                           tickets[i].price = loc[p].response.paidByMoney

\* u2 asked for the stored ticket 1 of u1 and was answered 403.
C24_Witness ==
    /\ pc["p1"] = "done"
    /\ loc["p1"].handler = "retrieve_ticket_details"
    /\ loc["p1"].user = "u2"
    /\ loc["p1"].uid = 1
    /\ OwnedBy(1, "u1")
    /\ loc["p1"].response.code = 403

(***************************************************************************)
(* C25.  In the ticket store, deleting an existing ticket removes it, so   *)
(* that every later lookup by that uid answers 404 (the uid stays absent   *)
(* until a create stores it, and a lookup of an absent uid answers 404),   *)
(* and deleting a uid that is not in the store answers 404 and leaves the  *)
(* store unchanged.                                                        *)
(***************************************************************************)
\* p is answered for a request of op in this step.
Answered(p, op) ==
    /\ cur'[p] # cur[p]
    /\ cur'[p].op = op
    /\ cur'[p].result.kind = "response"

\* The rows with another identifier than uid.
OtherRows(rows, uid) == SelectSeq(rows, LAMBDA r : r.ticket_uid # uid)

C25_Step(p) ==
    /\ Answered(p, "remove_ticket") =>
          LET uid == cur'[p].a.uid
          IN  IF TicketsOf(uid) # {}
              THEN /\ cur'[p].result.status = 204
                   /\ FirstTicket(tickets', uid) = 0
                   /\ OtherRows(tickets', uid) = OtherRows(tickets, uid)
              ELSE /\ cur'[p].result.status = 404
                   /\ tickets' = tickets
    /\ Answered(p, "get_ticket_by_uid") =>
          (TicketsOf(cur'[p].a.uid) = {} <=> cur'[p].result.status = 404)
    /\ \A uid \in 1..MaxPurchases :
          (/\ FirstTicket(tickets, uid) = 0
           /\ ~(pc[p] = "s_add" /\ cur[p].a.uid = uid))
              => FirstTicket(tickets', uid) = 0

C25_DeleteRemoves == [][C25_Step("p1")]_vars

\* Ticket 1 has been deleted with 204 from a store that held tickets 1 and 2;
\* ticket 2 is still there.
C25_Witness ==
    /\ pc["p1"] = "done"
    /\ cur["p1"].op = "remove_ticket"
    /\ cur["p1"].a.uid = 1
    /\ cur["p1"].result.kind = "response"
    /\ cur["p1"].result.status = 204
    /\ TicketsOf(1) = {}
    /\ TicketsOf(2) # {}

(***************************************************************************)
(* C26.  Ticket identifiers stay unique under concurrency: for any         *)
(* interleaving of two create-ticket requests carrying the same            *)
(* identifier the store never holds two tickets with that identifier; at   *)
(* most one of the requests succeeds and the other is answered 403.        *)
(***************************************************************************)
\* The create of p has been answered 201.
Created(p) ==
    /\ pc[p] = "done"
    /\ cur[p].op = "create_new_ticket"
    /\ cur[p].result.status = 201

C26_UniqueUnderRace ==
    /\ \A uid \in 1..MaxPurchases : Cardinality(TicketsOf(uid)) <= 1
    /\ \A p, q \in Procs :
          (p # q /\ Created(p) /\ Created(q)) => cur[p].a.uid # cur[q].a.uid

(***************************************************************************)
(* C27.  The balance stays >= 0 under concurrency: for any interleaving of *)
(* two pay-from-balance purchases by the same user, each computing its     *)
(* bonus_payment from the balance it read at step 2, the two debits        *)
(* together never exceed the balance available and the account is never    *)
(* overdrawn.                                                              *)
(***************************************************************************)
\* The purchase of p pays from the balance and has appended its debit.
Debited(p) ==
    /\ loc[p].handler = "purchase_ticket"
    /\ loc[p].paid
    /\ pc[p] \in {"p_reread", "p_ticket", "done"}
    /\ \E i \in EntriesOf(loc[p].uid) :
          history[i].operation_type = "DEBIT_THE_ACCOUNT"

C27_NeverOverdrawn ==
    /\ \A u \in Users : accounts[u] >= 0
    /\ \A p, q \in Procs :
          (p # q /\ Debited(p) /\ Debited(q) /\ loc[p].user = loc[q].user)
             => loc[p].bonus_payment + loc[q].bonus_payment
                   <= IF loc[p].balance >= loc[q].balance
                      THEN loc[p].balance ELSE loc[q].balance

(***************************************************************************)
(* C28.  For any interleaving of two concurrent cancels of the same PAID   *)
(* ticket by its owner, the ledger entry tied to the ticket is removed     *)
(* exactly once (its balance effect is undone once, never twice), the      *)
(* ticket ends up deleted, and at most one of the two requests is answered *)
(* with success.                                                           *)
(***************************************************************************)
\* The cancel of p has been answered.
CancelDone(p) == pc[p] = "done" /\ loc[p].handler = "cancel_ticket"

\* Two cancels of one ticket have both been answered.
C28_OneCancelWins ==
    \A p, q \in Procs :
        (p # q /\ CancelDone(p) /\ CancelDone(q) /\ loc[p].uid = loc[q].uid)
           => /\ TicketsOf(loc[p].uid) = {}
              /\ EntriesOf(loc[p].uid) = {}
              /\ \A u \in Users : accounts[u] = OpeningBalance + LedgerSum(history, u)
              /\ ~(loc[p].response.code = 204 /\ loc[q].response.code = 204)

(***************************************************************************)
(* C29.  In the purchase saga a failure of the guarded account re-read     *)
(* (a downstream fault, or the loyalty breaker refusing the call) after    *)
(* the ledger append ends the saga before the ticket is created: the       *)
(* ledger entry and its balance effect remain, no ticket with the          *)
(* identifier exists, and the caller is answered with a failure.           *)
(***************************************************************************)
\* The purchase of p has appended its ledger entry.
Appended(l) == ~l.paid \/ l.bonus_payment > 0

\* The re-read of p ends in this step without a value.
RereadFails(p) ==
    /\ pc[p] = "p_reread"
    /\ pc'[p] # "p_reread"
    /\ ~IsReturn(cur'[p].result)

C29_Step(p) ==
    RereadFails(p) =>
        /\ pc'[p] = "done"
        /\ loc'[p].response.code \in {500, 503}
        /\ <<tickets', history', accounts'>> = <<tickets, history, accounts>>
        /\ \A i \in 1..Len(tickets') : tickets'[i].ticket_uid # loc[p].uid
        /\ Appended(loc[p]) =>
              \E i \in 1..Len(history') :
                 /\ history'[i].ticket_uid = loc[p].uid
                 /\ history'[i].username = loc[p].user
                 /\ history'[i].balance_diff =
                       IF loc[p].paid THEN loc[p].bonus_payment
                                      ELSE accrual(loc[p].cash_payment)
        /\ \E b \in OpeningBalances :
              \A u \in Users : accounts'[u] = b + LedgerSum(history', u)

C29_RereadFailureAborts == [][\A p \in Procs : C29_Step(p)]_vars

\* The breaker, opened by the other request's failure, refused the re-read of
\* p1 after its append; the entry is in the ledger and there is no ticket.
C29_Witness ==
    /\ pc["p1"] = "done"
    /\ loc["p1"].handler = "purchase_ticket"
    /\ loc["p1"].uid # NoUid
    /\ Appended(loc["p1"])
    /\ cur["p1"].op = "get_user_privilege"
    /\ cur["p1"].result.kind = "CircuitOpenException"
    /\ loc["p1"].response.code = 503
    /\ EntriesOf(loc["p1"].uid) # {}
    /\ TicketsOf(loc["p1"].uid) = {}

(***************************************************************************)
(* C30.  If in the cancel saga the ticket delete fails after the           *)
(* compensating ledger delete succeeded, the ticket is still present with  *)
(* status PAID while its ledger entry is gone; a later cancel of the same  *)
(* ticket by its owner then succeeds, deletes the ticket, and changes no   *)
(* ledger entry and no balance.                                            *)
(***************************************************************************)
\* The ticket is in the store, PAID, owned by the user, with no ledger entry.
HalfCancelled(uid, user) ==
    /\ EntriesOf(uid) = {}
    /\ \E i \in TicketsOf(uid) :
          tickets[i].status = "PAID" /\ tickets[i].username = user

\* The ticket delete of p fails in this step.
DeleteFails(p) ==
    /\ pc[p] = "c_remove"
    /\ pc'[p] = "done"
    /\ ~IsReturn(cur'[p].result)

C30_Step(p) ==
    /\ DeleteFails(p) =>
          /\ loc'[p].response.code = 500
          /\ <<tickets', history', accounts'>> = <<tickets, history, accounts>>
          /\ HalfCancelled(loc[p].uid, loc[p].user)
    /\ (pc[p] \in CancelLabels /\ HalfCancelled(loc[p].uid, loc[p].user)) =>
          /\ history' = history
          /\ accounts' = accounts
          /\ pc'[p] # "c_revert"
          /\ pc'[p] = "done" =>
                \/ ~IsReturn(cur'[p].result)
                \/ /\ loc'[p].response.code = 204
                   /\ \A i \in 1..Len(tickets') :
                         tickets'[i].ticket_uid # loc[p].uid
                   /\ Len(tickets') = Len(tickets) - 1

C30_CancelAfterFailedDelete == [][\A p \in Procs : C30_Step(p)]_vars

\* The first cancel of ticket 1 deleted the ledger entry and failed on the
\* ticket delete; the later cancel has been answered 204 and the ticket is
\* gone.
C30_Witness ==
    /\ pc["p1"] = "done"
    /\ loc["p1"].handler = "cancel_ticket"
    /\ loc["p1"].uid = 1
    /\ cur["p1"].op = "remove_ticket"
    /\ ~IsReturn(cur["p1"].result)
    /\ loc["p1"].response.code = 500
    /\ pc["p2"] = "done"
    /\ loc["p2"].handler = "cancel_ticket"
    /\ loc["p2"].uid = 1
    /\ cur["p2"].op = "remove_ticket"
    /\ loc["p2"].response.code = 204
    /\ TicketsOf(1) = {}
    /\ EntriesOf(1) = {}

(***************************************************************************)
(* C31.  Every ticket in the ticket store has status PAID in every         *)
(* reachable state: tickets are created PAID, no operation changes a       *)
(* status, and cancel removes the row.  So the status check of the cancel  *)
(* saga never fails (no cancel is answered "cannot be cancelled") and no   *)
(* ticket is ever observed as CANCELED.                                    *)
(***************************************************************************)
\* The ticket the tickets service returned to p, if its last call read one.
Observed(p) ==
    IF cur[p].op = "get_ticket_by_uid" /\ cur[p].result.kind = "value"
    THEN {cur[p].result.body}
    ELSE {}

C31_AlwaysPaid ==
    /\ \A i \in 1..Len(tickets) : tickets[i].status = "PAID"
    /\ \A p \in Procs :
          /\ \A t \in Observed(p) : t.status = "PAID"
          /\ loc[p].handler = "cancel_ticket" => loc[p].response.code # 400

\* A ticket bought earlier has been cancelled, its row read and removed, while
\* another bought ticket is still in the store.
C31_Witness ==
    /\ pc["p1"] = "done"
    /\ loc["p1"].handler = "cancel_ticket"
    /\ loc["p1"].response.code = 204
    /\ cur["p1"].op = "remove_ticket"
    /\ Len(tickets) = 1
    /\ TicketsOf(loc["p1"].uid) = {}

(***************************************************************************)
(* C32.  A lookup the collaborator answers with 404 (unknown flight        *)
(* number, ticket uid, username or ledger entry) is not counted as a       *)
(* failure by the collaborator's breaker: the breaker is CLOSED with no    *)
(* failure counted once the lookup has ended, so that the next lookup on   *)
(* the same collaborator is attempted.                                     *)
(***************************************************************************)
\* The lookup of p has been answered 404.
AnsweredNotFound(p) ==
    /\ pc[p] = "done"
    /\ cur[p].op \in LookupOps
    /\ cur[p].attempted
    /\ cur[p].result.status = 404

C32_NotFoundKeepsClosed ==
    \A p \in Procs :
        AnsweredNotFound(p)
            => /\ cb[wrap_cb(cur[p].op)].state = "CLOSED"
               /\ cb[wrap_cb(cur[p].op)].failure_count = 0
               /\ cb_before_call(cb[wrap_cb(cur[p].op)], now).go

(***************************************************************************)
(* C33.  Write calls leave the breakers as they are: neither the success   *)
(* nor the failure of a create-ticket, delete-ticket, append-ledger-entry  *)
(* or delete-ledger-entry call changes the state, the failure count or the *)
(* last failure time of any breaker.  A failing write never opens a        *)
(* breaker and a succeeding write never closes one.                        *)
(***************************************************************************)
\* Caller p takes a step of a call of a write method.
StepsWrite(p) ==
    /\ pc'[p] # pc[p]
    /\ pc'[p] # "idle"
    /\ cur'[p].op \in WriteOps

C33_Step(p) == StepsWrite(p) => (cb' = cb /\ lock' = lock)

C33_WritesLeaveBreakers == [][\A p \in Procs : C33_Step(p)]_vars

\* A write has failed and the breaker of its collaborator is CLOSED with no
\* failure counted.
C33_Witness ==
    /\ pc["p1"] = "done"
    /\ cur["p1"].op \in WriteOps
    /\ cur["p1"].attempted
    /\ ~IsReturn(cur["p1"].result)
    /\ cb[TargetOf(cur["p1"].op)].state = "CLOSED"
    /\ cb[TargetOf(cur["p1"].op)].failure_count = 0

(***************************************************************************)
(* C34.  A breaker recovers: if from some point on the collaborator        *)
(* answers every attempted call, time keeps advancing and guarded calls    *)
(* keep being issued, then the breaker eventually is CLOSED with           *)
(* failure_count = 0 and stays CLOSED; it is never stuck in OPEN or in     *)
(* HALF_OPEN.                                                              *)
(***************************************************************************)
Recovered(service) ==
    cb[service].state = "CLOSED" /\ cb[service].failure_count = 0

C34_Recovers == <>[](\A service \in Services : Recovered(service))

\* The loyalty breaker, opened by a failure after the start, has been closed
\* again by a trial.
C34_Witness ==
    /\ Recovered(BonusName)
    /\ cb[BonusName].last_failure_time > 0
    /\ now - cb[BonusName].last_failure_time >= recovery_timeout * Resolution
    /\ pc["p1"] = "done"
    /\ wrap_cb(cur["p1"].op) = BonusName
    /\ cur["p1"].trial

=============================================================================
